---- MODULE Spec2Model ----
(***************************************************************************)
(* Piece-table text buffer of vs/editor/common/model/textBuffer2.ts: an   *)
(* order-statistic red-black tree of pieces (size_left / lf_left), the    *)
(* insert / delete mutators, the positional reads and the batch edit      *)
(* applier _applyEdits.                                                    *)
(*                                                                         *)
(* Strings are sequences of one-character strings.  The heap of TreeNode  *)
(* objects is the function `node` from object identities to records;      *)
(* identity 0 is the shared SENTINEL.  Every imperative routine of the     *)
(* source is an operator from a buffer record `t` (the fields of `this`   *)
(* plus the heap) to the buffer record after the routine has run; loops   *)
(* are recursive operators.                                                *)
(***************************************************************************)
EXTENDS Integers, Sequences, FiniteSets, TLC

VARIABLES
    root,                       \* TextBuffer.root
    node,                       \* the heap: identity -> TreeNode fields
    originalBuffer,             \* TextBuffer._originalBuffer
    changeBuffer,               \* TextBuffer._changeBuffer
    EOL,                        \* TextBuffer._EOL
    mightContainRTL,            \* TextBuffer._mightContainRTL
    mightContainNonBasicASCII,  \* TextBuffer._mightContainNonBasicASCII
    ref,                        \* reference string: the same edits on a plain string
    last,                       \* the last public call: its arguments, outcome and pre-state
    steps                       \* number of public calls made so far

vars == <<root, node, originalBuffer, changeBuffer, EOL, mightContainRTL,
          mightContainNonBasicASCII, ref, last, steps>>

----------------------------------------------------------------------------
(* Bounds of the exploration *)

MaxSteps == 4         \* public calls per behaviour
MaxDocLen == 5        \* longest document
MaxOrigLen == 2       \* longest original text
MaxValueLen == 1      \* longest inserted value
MaxPreSteps == 1      \* insert / delete calls before a batch of edits
MaxBatch == 2         \* operations per batch
MaxEditDocLen == 3    \* longest document that receives a batch

----------------------------------------------------------------------------
(* Characters and strings *)

LF == "\n"
CR == "\r"
Alef == "U+05D0"        \* one right-to-left (hence non basic ASCII) character
EAcute == "U+00E9"      \* one non basic ASCII character that is not right-to-left

Min(a, b) == IF a < b THEN a ELSE b
Max(a, b) == IF a > b THEN a ELSE b

\* String.prototype.substring(start, end): both clamped to [0, length], swapped if start > end
substring(b, a, e) ==
    LET a1 == Max(0, Min(a, Len(b)))
        e1 == Max(0, Min(e, Len(b)))
        lo == Min(a1, e1)
        hi == Max(a1, e1)
    IN  SubSeq(b, lo + 1, hi)

\* String.prototype.substr(start, length), start >= 0
substr(b, start, length) ==
    LET lo == Min(start, Len(b))
        hi == Min(Len(b), lo + Max(length, 0))
    IN  SubSeq(b, lo + 1, hi)

RECURSIVE CountLF(_)
CountLF(s) == IF s = <<>> THEN 0 ELSE (IF Head(s) = LF THEN 1 ELSE 0) + CountLF(Tail(s))

RECURSIVE SumSeq(_)
SumSeq(s) == IF s = <<>> THEN 0 ELSE Head(s) + SumSeq(Tail(s))

----------------------------------------------------------------------------
(* NodeColor, SENTINEL, null *)

Black == 0
Red == 1
SENTINEL == 0
NullNode == -1                  \* null where a TreeNode reference is expected
Null == [isNull |-> TRUE]
\* `lines: null` of a validated operation; split never returns the empty array
NullLines == <<>>       \* null where any other object is expected

----------------------------------------------------------------------------
(* PrefixSumComputer (vs/editor/common/viewModel/prefixSumComputer): a     *)
(* sequence of non-negative integers, indexed from 0 as in the source.     *)

getAccumulatedValue(values, index) ==
    IF index < 0 THEN 0 ELSE SumSeq(SubSeq(values, 1, index + 1))

RECURSIVE getIndexOfFrom(_, _, _, _)
getIndexOfFrom(values, offset, i, acc) ==
    IF i = Len(values) - 1 \/ offset < acc + values[i + 1]
    THEN [index |-> i, remainder |-> offset - acc]
    ELSE getIndexOfFrom(values, offset, i + 1, acc + values[i + 1])

\* (index, remainder) with sum(v[0..index-1]) <= offset < sum(v[0..index]);
\* an offset at or beyond the total lands in the last entry
getIndexOf(values, offset) == getIndexOfFrom(values, offset, 0, 0)

changeValue(values, index, value) == [values EXCEPT ![index + 1] = value]

insertValues(values, insertIndex, newValues) ==
    SubSeq(values, 1, insertIndex) \o newValues \o SubSeq(values, insertIndex + 1, Len(values))

removeValues(values, startIndex, cnt) ==
    IF startIndex >= Len(values) \/ cnt <= 0 THEN values
    ELSE SubSeq(values, 1, startIndex) \o SubSeq(values, startIndex + cnt + 1, Len(values))

\* Array.prototype.slice(begin) / slice(begin, end) on the values, 0-based
slice(values, begin, end) == SubSeq(values, begin + 1, Min(end, Len(values)))

----------------------------------------------------------------------------
(* Piece and TreeNode *)

Piece(isOriginalBuffer, offset, length, lineFeedCnt, lineLengthsVal) ==
    [isOriginalBuffer |-> isOriginalBuffer, offset |-> offset, length |-> length,
     lineFeedCnt |-> lineFeedCnt, lineStarts |-> lineLengthsVal]

TreeNode(piece, color) ==
    [piece |-> piece, color |-> color, size_left |-> 0, lf_left |-> 0,
     parent |-> NullNode, left |-> NullNode, right |-> NullNode]

SentinelNode ==
    [TreeNode(Null, Black) EXCEPT !.parent = SENTINEL, !.left = SENTINEL, !.right = SENTINEL]

\* the object allocated by `new TreeNode`: the first identity not in use
NewId(t) == CHOOSE i \in 1..(Cardinality(DOMAIN t.node) + 1) :
                /\ i \notin DOMAIN t.node
                /\ \A j \in 1..(i - 1) : j \in DOMAIN t.node

Left(t, x) == t.node[x].left
Right(t, x) == t.node[x].right
Parent(t, x) == t.node[x].parent
getNodeColor(t, x) == t.node[x].color
setNodeColor(t, x, color) == [t EXCEPT !.node[x].color = color]
PieceOf(t, x) == t.node[x].piece

\* x.piece ? x.piece.length : 0   and   x.piece ? x.piece.lineFeedCnt : 0
LengthOrZero(t, x) == IF PieceOf(t, x) = Null THEN 0 ELSE PieceOf(t, x).length
LFOrZero(t, x) == IF PieceOf(t, x) = Null THEN 0 ELSE PieceOf(t, x).lineFeedCnt

RECURSIVE leftest(_, _)
leftest(t, n) == IF Left(t, n) # SENTINEL THEN leftest(t, Left(t, n)) ELSE n

RECURSIVE righttest(_, _)
righttest(t, n) == IF Right(t, n) # SENTINEL THEN righttest(t, Right(t, n)) ELSE n

RECURSIVE calculateSize(_, _)
calculateSize(t, n) ==
    IF n = SENTINEL THEN 0
    ELSE t.node[n].size_left + PieceOf(t, n).length + calculateSize(t, Right(t, n))

RECURSIVE calculateLF(_, _)
calculateLF(t, n) ==
    IF n = SENTINEL THEN 0
    ELSE t.node[n].lf_left + PieceOf(t, n).lineFeedCnt + calculateLF(t, Right(t, n))

\* leftRotate that fixes size_left and leaves lf_left as it was (a fault C31 must detect)
leftRotateKeepsLFLeft(t, x) ==
    LET y == Right(t, x)
        \* fix size_left
        fixSizeLeft(s) ==
            [s EXCEPT !.node[y].size_left = @ + s.node[x].size_left + LengthOrZero(s, x)]
        moveChild(s) == [s EXCEPT !.node[x].right = Left(s, y)]
        adoptChild(s) ==
            IF Left(s, y) # SENTINEL THEN [s EXCEPT !.node[Left(s, y)].parent = x] ELSE s
        liftY(s) == [s EXCEPT !.node[y].parent = Parent(s, x)]
        replaceX(s) ==
            IF Parent(s, x) = SENTINEL THEN [s EXCEPT !.root = y]
            ELSE IF Left(s, Parent(s, x)) = x
                 THEN [s EXCEPT !.node[Parent(s, x)].left = y]
                 ELSE [s EXCEPT !.node[Parent(s, x)].right = y]
        lowerX(s) == [[s EXCEPT !.node[y].left = x] EXCEPT !.node[x].parent = y]
    IN  lowerX(replaceX(liftY(adoptChild(moveChild(fixSizeLeft(t))))))

leftRotate(t, x) ==
    LET y == Right(t, x)
        \* fix size_left
        fixSizeLeft(s) ==
            [s EXCEPT !.node[y].size_left = @ + s.node[x].size_left + LengthOrZero(s, x),
                      !.node[y].lf_left = @ + s.node[x].lf_left + LFOrZero(s, x)]
        moveChild(s) == [s EXCEPT !.node[x].right = Left(s, y)]
        adoptChild(s) ==
            IF Left(s, y) # SENTINEL THEN [s EXCEPT !.node[Left(s, y)].parent = x] ELSE s
        liftY(s) == [s EXCEPT !.node[y].parent = Parent(s, x)]
        replaceX(s) ==
            IF Parent(s, x) = SENTINEL THEN [s EXCEPT !.root = y]
            ELSE IF Left(s, Parent(s, x)) = x
                 THEN [s EXCEPT !.node[Parent(s, x)].left = y]
                 ELSE [s EXCEPT !.node[Parent(s, x)].right = y]
        lowerX(s) == [[s EXCEPT !.node[y].left = x] EXCEPT !.node[x].parent = y]
    IN  lowerX(replaceX(liftY(adoptChild(moveChild(fixSizeLeft(t))))))

rightRotate(t, y) ==
    LET x == Left(t, y)
        moveChild(s) == [s EXCEPT !.node[y].left = Right(s, x)]
        adoptChild(s) ==
            IF Right(s, x) # SENTINEL THEN [s EXCEPT !.node[Right(s, x)].parent = y] ELSE s
        liftX(s) == [s EXCEPT !.node[x].parent = Parent(s, y)]
        \* fix size_left
        fixSizeLeft(s) ==
            [s EXCEPT !.node[y].size_left = @ - (s.node[x].size_left + LengthOrZero(s, x)),
                      !.node[y].lf_left = @ - (s.node[x].lf_left + LFOrZero(s, x))]
        replaceY(s) ==
            IF Parent(s, y) = SENTINEL THEN [s EXCEPT !.root = x]
            ELSE IF y = Right(s, Parent(s, y))
                 THEN [s EXCEPT !.node[Parent(s, y)].right = x]
                 ELSE [s EXCEPT !.node[Parent(s, y)].left = x]
        lowerY(s) == [[s EXCEPT !.node[x].right = y] EXCEPT !.node[y].parent = x]
    IN  lowerY(replaceY(fixSizeLeft(liftX(adoptChild(moveChild(t))))))

RECURSIVE updateMetadata(_, _, _, _)
updateMetadata(t, x, delta, lineFeedCntDelta) ==
    IF x # t.root /\ x # SENTINEL
    THEN LET p  == Parent(t, x)
             t1 == IF Left(t, p) = x
                   THEN [t EXCEPT !.node[p].size_left = @ + delta,
                                  !.node[p].lf_left = @ + lineFeedCntDelta]
                   ELSE t
         IN  updateMetadata(t1, p, delta, lineFeedCntDelta)
    ELSE t

\* recomputeMetadata, first loop: go upwards till the node whose left subtree is changed
RECURSIVE recomputeClimb(_, _)
recomputeClimb(t, x) ==
    IF x # t.root /\ x = Right(t, Parent(t, x)) THEN recomputeClimb(t, Parent(t, x)) ELSE x

\* recomputeMetadata, second loop: go upwards till root
RECURSIVE recomputePropagate(_, _, _, _)
recomputePropagate(t, x, delta, lf_delta) ==
    IF x # t.root /\ (delta # 0 \/ lf_delta # 0)
    THEN LET p  == Parent(t, x)
             t1 == IF Left(t, p) = x
                   THEN [t EXCEPT !.node[p].size_left = @ + delta,
                                  !.node[p].lf_left = @ + lf_delta]
                   ELSE t
         IN  recomputePropagate(t1, p, delta, lf_delta)
    ELSE t

\* recomputeMetadata after the first loop has stopped at x1
recomputeFrom(t, x1) ==
    IF x1 = t.root THEN t
    ELSE LET x        == Parent(t, x1)
             delta    == calculateSize(t, Left(t, x)) - t.node[x].size_left
             lf_delta == calculateLF(t, Left(t, x)) - t.node[x].lf_left
         IN  recomputePropagate([t EXCEPT !.node[x].size_left = @ + delta,
                                          !.node[x].lf_left = @ + lf_delta],
                                x, delta, lf_delta)

recomputeMetadata(t, x) ==
    IF x = t.root THEN t ELSE recomputeFrom(t, recomputeClimb(t, x))

\* rightRotate(tree, x.parent.parent) and leftRotate(tree, x.parent.parent)
rightRotateGrandparent(t, x) == rightRotate(t, Parent(t, Parent(t, x)))
leftRotateGrandparent(t, x) == leftRotate(t, Parent(t, Parent(t, x)))

\* rightRotate(tree, x.parent) and leftRotate(tree, x.parent)
rightRotateParent(t, x) == rightRotate(t, Parent(t, x))
leftRotateParent(t, x) == leftRotate(t, Parent(t, x))

\* fixInsert, uncle red: x.parent.color = Black; y.color = Black; x.parent.parent.color = Red
fixInsertRecolor(t, x, y) ==
    setNodeColor(setNodeColor(setNodeColor(t, Parent(t, x), Black), y, Black),
                 Parent(t, Parent(t, x)), Red)

\* fixInsert, uncle black: x.parent.color = Black; x.parent.parent.color = Red
fixInsertRecolorParents(t, x) ==
    LET blackParent(s) == setNodeColor(s, Parent(s, x), Black)
        redGrandparent(s) == setNodeColor(s, Parent(s, Parent(s, x)), Red)
    IN  redGrandparent(blackParent(t))

\* fixInsert, one turn of the loop: the tree and the x that the next test reads
fixInsertTurn(t, x) ==
    IF Parent(t, x) = Left(t, Parent(t, Parent(t, x)))
    THEN IF getNodeColor(t, Right(t, Parent(t, Parent(t, x)))) = Red
         THEN [t |-> fixInsertRecolor(t, x, Right(t, Parent(t, Parent(t, x)))),
               x |-> Parent(t, Parent(t, x))]
         ELSE IF x = Right(t, Parent(t, x))
              \* x = x.parent; leftRotate(tree, x)
              THEN [t |-> rightRotateGrandparent(
                              fixInsertRecolorParents(leftRotateParent(t, x), Parent(t, x)),
                              Parent(t, x)),
                    x |-> Parent(t, x)]
              ELSE [t |-> rightRotateGrandparent(fixInsertRecolorParents(t, x), x), x |-> x]
    ELSE IF getNodeColor(t, Left(t, Parent(t, Parent(t, x)))) = Red
         THEN [t |-> fixInsertRecolor(t, x, Left(t, Parent(t, Parent(t, x)))),
               x |-> Parent(t, Parent(t, x))]
         ELSE IF x = Left(t, Parent(t, x))
              \* x = x.parent; rightRotate(tree, x)
              THEN [t |-> leftRotateGrandparent(
                              fixInsertRecolorParents(rightRotateParent(t, x), Parent(t, x)),
                              Parent(t, x)),
                    x |-> Parent(t, x)]
              ELSE [t |-> leftRotateGrandparent(fixInsertRecolorParents(t, x), x), x |-> x]

\* while (x !== tree.root && x.parent.color === NodeColor.Red)
fixInsertGoesOn(t, x) == x # t.root /\ getNodeColor(t, Parent(t, x)) = Red

RECURSIVE fixInsertLoop(_, _)
RECURSIVE fixInsertFrom(_)

\* the loop goes on with the tree and the x of the turn before
fixInsertFrom(turn) == fixInsertLoop(turn.t, turn.x)

fixInsertLoop(t, x) ==
    IF fixInsertGoesOn(t, x) THEN fixInsertFrom(fixInsertTurn(t, x)) ELSE t

\* setNodeColor(tree.root, NodeColor.Black)
blackenRoot(t) == setNodeColor(t, t.root, Black)

\* fixInsert without the final blackening of the root (a fault C3 must detect)
fixInsertLeavesRoot(t, x) == fixInsertLoop(recomputeMetadata(t, x), x)

fixInsert(t, x) == blackenRoot(fixInsertLoop(recomputeMetadata(t, x), x))

\* let z = new TreeNode(p, NodeColor.Red); z.left = z.right = z.parent = SENTINEL
AllocRed(t, z, p) ==
    [t EXCEPT !.node = @ @@ (z :> [TreeNode(p, Red) EXCEPT !.left = SENTINEL,
                                                            !.right = SENTINEL,
                                                            !.parent = SENTINEL])]

\* rbInsertRight, the linking of the new node z
linkRight(t, n, z) ==
    IF t.root = SENTINEL
    THEN setNodeColor([t EXCEPT !.root = z], z, Black)
    ELSE IF Right(t, n) = SENTINEL
         THEN [t EXCEPT !.node[n].right = z, !.node[z].parent = n]
         ELSE LET nextNode == leftest(t, Right(t, n))
              IN  [t EXCEPT !.node[nextNode].left = z, !.node[z].parent = nextNode]

rbInsertRight(t, n, p) == fixInsert(linkRight(AllocRed(t, NewId(t), p), n, NewId(t)), NewId(t))

\* rbInsertLeft, the linking of the new node z
linkLeft(t, n, z) ==
    IF t.root = SENTINEL
    THEN setNodeColor([t EXCEPT !.root = z], z, Black)
    ELSE IF Left(t, n) = SENTINEL
         THEN [t EXCEPT !.node[n].left = z, !.node[z].parent = n]
         ELSE LET prevNode == righttest(t, Left(t, n))
              IN  [t EXCEPT !.node[prevNode].right = z, !.node[z].parent = prevNode]

rbInsertLeft(t, n, p) == fixInsert(linkLeft(AllocRed(t, NewId(t), p), n, NewId(t)), NewId(t))

\* resetSentinel that resets nothing (a fault C20 must detect)
resetSentinelSkipped(t) == t

resetSentinel(t) == [t EXCEPT !.node[SENTINEL].parent = SENTINEL]

\* TreeNode.detach
detach(t, z) == [t EXCEPT !.node[z].parent = NullNode, !.node[z].left = NullNode,
                          !.node[z].right = NullNode]

\* RB-DELETE-FIXUP, x is a left child, w = x.parent.right is red:
\* recolor and leftRotate(tree, x.parent)
fixupLeftRedSibling(t, x) ==
    LET w == Right(t, Parent(t, x))
    IN  IF getNodeColor(t, w) = Red
        THEN leftRotateParent(setNodeColor(setNodeColor(t, w, Black), Parent(t, x), Red), x)
        ELSE t

\* RB-DELETE-FIXUP, x is a left child, w.right is black: recolor and rightRotate(tree, w)
fixupLeftTurnSibling(t, x) ==
    LET w == Right(t, Parent(t, x))
    IN  IF getNodeColor(t, Right(t, w)) = Black
        THEN rightRotate(setNodeColor(setNodeColor(t, Left(t, w), Black), w, Red), w)
        ELSE t

\* RB-DELETE-FIXUP, x is a left child: w.color = x.parent.color; x.parent.color = Black;
\* w.right.color = Black; leftRotate(tree, x.parent)
fixupLeftRotate(t, x) ==
    LET w == Right(t, Parent(t, x))
        colorSibling(s) == setNodeColor(s, w, getNodeColor(s, Parent(s, x)))
        blackParent(s) == setNodeColor(s, Parent(s, x), Black)
        blackNephew(s) == setNodeColor(s, Right(s, w), Black)
    IN  leftRotateParent(blackNephew(blackParent(colorSibling(t))), x)

\* the mirror images, x is a right child and w = x.parent.left
fixupRightRedSibling(t, x) ==
    LET w == Left(t, Parent(t, x))
    IN  IF getNodeColor(t, w) = Red
        THEN rightRotateParent(setNodeColor(setNodeColor(t, w, Black), Parent(t, x), Red), x)
        ELSE t

fixupRightTurnSibling(t, x) ==
    LET w == Left(t, Parent(t, x))
    IN  IF getNodeColor(t, Left(t, w)) = Black
        THEN leftRotate(setNodeColor(setNodeColor(t, Right(t, w), Black), w, Red), w)
        ELSE t

fixupRightRotate(t, x) ==
    LET w == Left(t, Parent(t, x))
        colorSibling(s) == setNodeColor(s, w, getNodeColor(s, Parent(s, x)))
        blackParent(s) == setNodeColor(s, Parent(s, x), Black)
        blackNephew(s) == setNodeColor(s, Left(s, w), Black)
    IN  rightRotateParent(blackNephew(blackParent(colorSibling(t))), x)

\* RB-DELETE-FIXUP loop of rbDelete. In every step w is x.parent.right (x.parent.left in
\* the mirror image) of the current tree: the code assigns it so before the step and again
\* after each rotation.

\* the tree after the last rotation of a turn, and x = tree.root
fixupAtRoot(t) == [t |-> t, x |-> t.root]

\* the loop body for x = x.parent.left, after the red sibling case
fixupLeft(t, x) ==
    LET w == Right(t, Parent(t, x))
    IN  IF getNodeColor(t, Left(t, w)) = Black /\ getNodeColor(t, Right(t, w)) = Black
        THEN [t |-> setNodeColor(t, w, Red), x |-> Parent(t, x)]
        ELSE fixupAtRoot(fixupLeftRotate(fixupLeftTurnSibling(t, x), x))

\* the loop body for x = x.parent.right, after the red sibling case
fixupRight(t, x) ==
    LET w == Left(t, Parent(t, x))
    IN  IF getNodeColor(t, Left(t, w)) = Black /\ getNodeColor(t, Right(t, w)) = Black
        THEN [t |-> setNodeColor(t, w, Red), x |-> Parent(t, x)]
        ELSE fixupAtRoot(fixupRightRotate(fixupRightTurnSibling(t, x), x))

\* RB-DELETE-FIXUP, one turn of the loop: the tree and the x that the next test reads
rbDeleteFixupTurn(t, x) ==
    IF x = Left(t, Parent(t, x))
    THEN fixupLeft(fixupLeftRedSibling(t, x), x)
    ELSE fixupRight(fixupRightRedSibling(t, x), x)

\* while (x !== tree.root && getNodeColor(x) === NodeColor.Black)
rbDeleteFixupGoesOn(t, x) == x # t.root /\ getNodeColor(t, x) = Black

\* x.color = NodeColor.Black; resetSentinel()
rbDeleteFixupEnd(t, x) == resetSentinel(setNodeColor(t, x, Black))

RECURSIVE rbDeleteFixup(_, _)
RECURSIVE rbDeleteFixupFrom(_)

\* the loop goes on with the tree and the x of the turn before
rbDeleteFixupFrom(turn) == rbDeleteFixup(turn.t, turn.x)

rbDeleteFixup(t, x) ==
    IF rbDeleteFixupGoesOn(t, x)
    THEN rbDeleteFixupFrom(rbDeleteFixupTurn(t, x))
    ELSE rbDeleteFixupEnd(t, x)

\* rbDelete, y # z: x takes y's place and y takes z's place
rbDeleteReplace(t, z, y, x) ==
    LET linkX(s) ==
            IF Parent(s, y) = z
            THEN [s EXCEPT !.node[x].parent = y]
            ELSE [s EXCEPT !.node[x].parent = Parent(s, y)]
        moveLeft(s) == [s EXCEPT !.node[y].left = Left(s, z)]
        moveRight(s) == [s EXCEPT !.node[y].right = Right(s, z)]
        moveParent(s) == [s EXCEPT !.node[y].parent = Parent(s, z)]
        moveColor(s) == setNodeColor(s, y, getNodeColor(s, z))
        replaceZ(s) ==
            IF z = s.root THEN [s EXCEPT !.root = y]
            ELSE IF z = Left(s, Parent(s, z))
                 THEN [s EXCEPT !.node[Parent(s, z)].left = y]
                 ELSE [s EXCEPT !.node[Parent(s, z)].right = y]
        adoptLeft(s) ==
            IF Left(s, y) # SENTINEL THEN [s EXCEPT !.node[Left(s, y)].parent = y] ELSE s
        adoptRight(s) ==
            IF Right(s, y) # SENTINEL THEN [s EXCEPT !.node[Right(s, y)].parent = y] ELSE s
        \* we replace z with y, so in this sub tree, the length change is z.item.length
        moveSizeLeft(s) == [s EXCEPT !.node[y].size_left = s.node[z].size_left,
                                     !.node[y].lf_left = s.node[z].lf_left]
    IN  recomputeMetadata(
            moveSizeLeft(adoptRight(adoptLeft(replaceZ(moveColor(moveParent(moveRight(moveLeft(
                \* as we make changes to x's hierarchy, update size_left of subtree first
                recomputeMetadata(linkX(t), x))))))))),
            y)

\* rbDelete: if (x.parent.left === x) { ... updateMetadata(tree, x.parent, delta, lf_delta) }
rbDeleteParentMetadata(t, x) ==
    LET xp          == Parent(t, x)
        newSizeLeft == calculateSize(t, x)
        newLFLeft   == calculateLF(t, x)
    IN  IF /\ Left(t, xp) = x
           /\ (newSizeLeft # t.node[xp].size_left \/ newLFLeft # t.node[xp].lf_left)
        THEN updateMetadata([t EXCEPT !.node[xp].size_left = newSizeLeft,
                                      !.node[xp].lf_left = newLFLeft],
                            xp, newSizeLeft - t.node[xp].size_left,
                            newLFLeft - t.node[xp].lf_left)
        ELSE t

\* recomputeMetadata(tree, x.parent)
recomputeParent(t, x) == recomputeMetadata(t, Parent(t, x))

\* rbDelete: if (yWasRed) { resetSentinel(); return; } and the RB-DELETE-FIXUP
rbDeleteFinish(t, x, yWasRed) == IF yWasRed THEN resetSentinel(t) ELSE rbDeleteFixup(t, x)

\* rbDelete, y is not the root: y is unlinked, z is detached and the metadata of the
\* ancestors is brought up to date; the recolouring is still to come
rbDeleteUnlinked(t, z, y, x) ==
    LET unlinkY(s) ==
            IF y = Left(s, Parent(s, y))
            THEN [s EXCEPT !.node[Parent(s, y)].left = x]
            ELSE [s EXCEPT !.node[Parent(s, y)].right = x]
        linkX(s) == [s EXCEPT !.node[x].parent = Parent(s, y)]
    IN  recomputeParent(
            rbDeleteParentMetadata(
                detach(IF y = z
                       THEN recomputeMetadata(linkX(unlinkY(t)), x)
                       ELSE rbDeleteReplace(unlinkY(t), z, y, x),
                       z),
                x),
            x)

\* rbDelete, the part after y and x are chosen and y is not the root
rbDeleteUnlink(t, z, y, x) ==
    rbDeleteFinish(rbDeleteUnlinked(t, z, y, x), x, getNodeColor(t, y) = Red)

\* rbDelete, y is the root: tree.root = x; x.color = Black; z.detach(); resetSentinel();
\* tree.root.parent = SENTINEL
rbDeleteRoot(t, z, x) ==
    LET newRoot(s) == setNodeColor([s EXCEPT !.root = x], x, Black)
        rootParent(s) == [s EXCEPT !.node[s.root].parent = SENTINEL]
    IN  rootParent(resetSentinel(detach(newRoot(t), z)))

\* rbDelete once y and x are chosen
rbDeleteNode(t, z, y, x) ==
    IF y = t.root THEN rbDeleteRoot(t, z, x) ELSE rbDeleteUnlink(t, z, y, x)

\* rbDelete, the node y that leaves its place in the tree
rbDeleteY(t, z) ==
    IF Left(t, z) = SENTINEL \/ Right(t, z) = SENTINEL THEN z ELSE leftest(t, Right(t, z))

\* rbDelete, the child x of y that takes y's place
rbDeleteX(t, z, y) ==
    IF Left(t, z) = SENTINEL THEN Right(t, y)
    ELSE IF Right(t, z) = SENTINEL THEN Left(t, y)
    ELSE Right(t, y)

\* rbDelete once y is chosen
rbDeleteWith(t, z, y) == rbDeleteNode(t, z, y, rbDeleteX(t, z, y))

rbDelete(t, z) == rbDeleteWith(t, z, rbDeleteY(t, z))

\* TreeNode.next: climb while the node is a right child
RECURSIVE nextClimb(_, _)
nextClimb(t, n) ==
    IF Parent(t, n) # SENTINEL /\ Left(t, Parent(t, n)) # n THEN nextClimb(t, Parent(t, n)) ELSE n

next(t, n) ==
    IF Right(t, n) # SENTINEL THEN leftest(t, Right(t, n))
    ELSE LET m == nextClimb(t, n)
         IN  IF Parent(t, m) = SENTINEL THEN SENTINEL ELSE Parent(t, m)

RECURSIVE prevClimb(_, _)
prevClimb(t, n) ==
    IF Parent(t, n) # SENTINEL /\ Right(t, Parent(t, n)) # n THEN prevClimb(t, Parent(t, n)) ELSE n

prev(t, n) ==
    IF Left(t, n) # SENTINEL THEN righttest(t, Left(t, n))
    ELSE LET m == prevClimb(t, n)
         IN  IF Parent(t, m) = SENTINEL THEN SENTINEL ELSE Parent(t, m)

----------------------------------------------------------------------------
(* TextBuffer *)

\* udpateLFCount: scan the chunk for '\n'; lineFeedStarts is [-1, i1, i2, ...]
RECURSIVE lineFeedStartsFrom(_, _)
lineFeedStartsFrom(chunk, i) ==
    IF i >= Len(chunk) THEN <<>>
    ELSE IF chunk[i + 1] = LF THEN <<i>> \o lineFeedStartsFrom(chunk, i + 1)
    ELSE lineFeedStartsFrom(chunk, i + 1)

udpateLFCount(chunk) ==
    LET lineFeedStarts  == <<-1>> \o lineFeedStartsFrom(chunk, 0)
        chunkLineFeedCnt == Len(lineFeedStarts) - 1
        lineStartValues ==
            [i \in 1..(chunkLineFeedCnt + 1) |->
                IF i <= chunkLineFeedCnt
                THEN lineFeedStarts[i + 1] - lineFeedStarts[i]
                ELSE Len(chunk) - lineFeedStarts[Len(lineFeedStarts)] - 1]
    IN  [lineFeedCount |-> chunkLineFeedCnt, lineLengths |-> lineStartValues]

\* the buffer a piece points into
BufferOf(t, x) == IF PieceOf(t, x).isOriginalBuffer THEN t.originalBuffer ELSE t.changeBuffer

\* new TextBuffer(textSource)
NewTextBuffer(text, eol, containsRTL, isBasicASCII) ==
    LET t0 == [root |-> SENTINEL, node |-> (SENTINEL :> SentinelNode),
               originalBuffer |-> text, changeBuffer |-> <<>>, EOL |-> eol,
               mightContainRTL |-> containsRTL,
               mightContainNonBasicASCII |-> ~isBasicASCII]
    IN  IF Len(text) > 0
        THEN LET lc == udpateLFCount(text)
             IN  rbInsertLeft(t0, NullNode, Piece(TRUE, 0, Len(text), lc.lineFeedCount, lc.lineLengths))
        ELSE t0

RECURSIVE nodeAtFrom(_, _, _)
nodeAtFrom(t, x, offset) ==
    IF x = SENTINEL THEN Null
    ELSE IF t.node[x].size_left > offset THEN nodeAtFrom(t, Left(t, x), offset)
    ELSE IF t.node[x].size_left + PieceOf(t, x).length >= offset
         THEN [node |-> x, remainder |-> offset - t.node[x].size_left]
    ELSE nodeAtFrom(t, Right(t, x), offset - (t.node[x].size_left + PieceOf(t, x).length))

\* nodeAt that answers with the root without descending (a fault C28 must detect)
nodeAtWithoutDescent(t, offset) ==
    IF t.root = SENTINEL THEN Null
    ELSE [node |-> t.root, remainder |-> offset - t.node[t.root].size_left]

nodeAt(t, offset) == nodeAtFrom(t, t.root, offset)

RECURSIVE offsetOfNodeFrom(_, _, _)
offsetOfNodeFrom(t, n, pos) ==
    IF n # t.root
    THEN offsetOfNodeFrom(t, Parent(t, n),
             IF Right(t, Parent(t, n)) = n
             THEN pos + t.node[Parent(t, n)].size_left + PieceOf(t, Parent(t, n)).length
             ELSE pos)
    ELSE pos

offsetOfNode(t, n) == IF n = NullNode THEN 0 ELSE offsetOfNodeFrom(t, n, t.node[n].size_left)

setPiece(t, x, piece) == [t EXCEPT !.node[x].piece = piece]

\* insertAppend that does not count the new line feeds (a fault C4 must detect)
insertAppendKeepsLFCnt(t, n, value) ==
    LET p  == PieceOf(t, n)
        lc == udpateLFCount(value)
        ls1 == changeValue(p.lineStarts, Len(p.lineStarts) - 1,
                           p.lineStarts[Len(p.lineStarts)] + lc.lineLengths[1])
        ls2 == insertValues(ls1, Len(ls1), Tail(lc.lineLengths))
        t1 == setPiece(t, n, [p EXCEPT !.length = @ + Len(value),
                                       !.lineStarts = ls2])
    IN  updateMetadata(t1, n, Len(value), lc.lineFeedCount)

\* insert, the branch that appends the value to the piece of `n` (coalescing)
insertAppend(t, n, value) ==
    LET p  == PieceOf(t, n)
        lc == udpateLFCount(value)
        ls1 == changeValue(p.lineStarts, Len(p.lineStarts) - 1,
                           p.lineStarts[Len(p.lineStarts)] + lc.lineLengths[1])
        ls2 == insertValues(ls1, Len(ls1), Tail(lc.lineLengths))
        t1 == setPiece(t, n, [p EXCEPT !.length = @ + Len(value),
                                       !.lineFeedCnt = @ + lc.lineFeedCount,
                                       !.lineStarts = ls2])
    IN  updateMetadata(t1, n, Len(value), lc.lineFeedCount)

\* the split that links the inserted piece before the new right half, so that the right
\* half ends up between the left half and the inserted piece (a fault C27 must detect)
insertSplitLinksInsertedFirst(t, n, newPiece, offset, nodeOffsetInDocument, insertPos) ==
    LET p   == PieceOf(t, n)
        rls1 == changeValue(p.lineStarts, insertPos.index,
                            p.lineStarts[insertPos.index + 1] - insertPos.remainder)
        rls2 == IF insertPos.index > 0 THEN removeValues(rls1, 0, insertPos.index) ELSE rls1
        newRightPiece == Piece(p.isOriginalBuffer, p.offset + offset - nodeOffsetInDocument,
                               nodeOffsetInDocument + p.length - offset,
                               p.lineFeedCnt - insertPos.index, rls2)
        lf_delta == insertPos.index - p.lineFeedCnt
        ls1 == removeValues(p.lineStarts, insertPos.index + 1,
                            Len(p.lineStarts) - insertPos.index - 1)
        ls2 == changeValue(ls1, insertPos.index, insertPos.remainder)
    IN  rbInsertRight(
            rbInsertRight(
                updateMetadata(
                    setPiece(t, n, [p EXCEPT !.length = @ - newRightPiece.length,
                                             !.lineFeedCnt = insertPos.index,
                                             !.lineStarts = ls2]),
                    n, -newRightPiece.length, lf_delta),
                n, newPiece),
            n, newRightPiece)

\* insert, the branch that splits the piece of `n` at `offset`
insertSplit(t, n, newPiece, offset, nodeOffsetInDocument, insertPos) ==
    LET p   == PieceOf(t, n)
        rls1 == changeValue(p.lineStarts, insertPos.index,
                            p.lineStarts[insertPos.index + 1] - insertPos.remainder)
        rls2 == IF insertPos.index > 0 THEN removeValues(rls1, 0, insertPos.index) ELSE rls1
        newRightPiece == Piece(p.isOriginalBuffer, p.offset + offset - nodeOffsetInDocument,
                               nodeOffsetInDocument + p.length - offset,
                               p.lineFeedCnt - insertPos.index, rls2)
        lf_delta == insertPos.index - p.lineFeedCnt
        ls1 == removeValues(p.lineStarts, insertPos.index + 1,
                            Len(p.lineStarts) - insertPos.index - 1)
        ls2 == changeValue(ls1, insertPos.index, insertPos.remainder)
    IN  rbInsertRight(
            rbInsertRight(
                updateMetadata(
                    setPiece(t, n, [p EXCEPT !.length = @ - newRightPiece.length,
                                             !.lineFeedCnt = insertPos.index,
                                             !.lineStarts = ls2]),
                    n, -newRightPiece.length, lf_delta),
                n, newRightPiece),
            n, newPiece)

\* insert into the empty tree that starts the change buffer afresh instead of appending
\* to it (a fault C15 must detect)
insertNewOverwritesChanges(t, value) ==
    LET lc == udpateLFCount(value)
    IN  rbInsertLeft([t EXCEPT !.changeBuffer = value], NullNode,
                     Piece(FALSE, 0, Len(value), lc.lineFeedCount, lc.lineLengths))

\* insert, the tree is empty: insert new node
insertNew(t, value) ==
    LET startOffset == Len(t.changeBuffer)
        lc == udpateLFCount(value)
    IN  rbInsertLeft([t EXCEPT !.changeBuffer = @ \o value], NullNode,
                     Piece(FALSE, startOffset, Len(value), lc.lineFeedCount, lc.lineLengths))

insert(t, value, offset) ==
    IF t.root # SENTINEL
    THEN LET cursor == nodeAt(t, offset)
             n == cursor.node
             insertPos == getIndexOf(PieceOf(t, n).lineStarts, cursor.remainder)
             nodeOffsetInDocument == offsetOfNode(t, n)
             startOffset == Len(t.changeBuffer)
             t1 == [t EXCEPT !.changeBuffer = @ \o value]
             p == PieceOf(t1, n)
         IN  IF ~p.isOriginalBuffer
                /\ p.offset + p.length = Len(t1.changeBuffer) - Len(value)
                /\ nodeOffsetInDocument + p.length = offset
             THEN insertAppend(t1, n, value)
             ELSE LET lc == udpateLFCount(value)
                      newPiece == Piece(FALSE, startOffset, Len(value),
                                        lc.lineFeedCount, lc.lineLengths)
                  IN  IF nodeOffsetInDocument = offset
                      THEN rbInsertLeft(t1, n, newPiece)
                      ELSE IF nodeOffsetInDocument + p.length > offset
                      THEN insertSplit(t1, n, newPiece, offset, nodeOffsetInDocument, insertPos)
                      ELSE rbInsertRight(t1, n, newPiece)
    ELSE insertNew(t, value)

\* deleteHead without moving the piece's offset (a fault C1 must detect)
deleteHeadKeepsOffset(t, startNode, cnt, endSplitPos) ==
    LET p   == PieceOf(t, startNode)
        ls1 == changeValue(p.lineStarts, endSplitPos.index,
                           p.lineStarts[endSplitPos.index + 1] - endSplitPos.remainder)
        ls2 == IF endSplitPos.index > 0 THEN removeValues(ls1, 0, endSplitPos.index) ELSE ls1
        t1  == setPiece(t, startNode, [p EXCEPT !.length = @ - cnt,
                                                !.lineFeedCnt = @ - endSplitPos.index,
                                                !.lineStarts = ls2])
    IN  updateMetadata(t1, startNode, -cnt, -endSplitPos.index)

\* delete inside one node: "delete head"
deleteHead(t, startNode, cnt, endSplitPos) ==
    LET p   == PieceOf(t, startNode)
        ls1 == changeValue(p.lineStarts, endSplitPos.index,
                           p.lineStarts[endSplitPos.index + 1] - endSplitPos.remainder)
        ls2 == IF endSplitPos.index > 0 THEN removeValues(ls1, 0, endSplitPos.index) ELSE ls1
        t1  == setPiece(t, startNode, [p EXCEPT !.length = @ - cnt,
                                                !.offset = @ + cnt,
                                                !.lineFeedCnt = @ - endSplitPos.index,
                                                !.lineStarts = ls2])
    IN  updateMetadata(t1, startNode, -cnt, -endSplitPos.index)

\* deleteTail that does not pass the line-feed delta upwards (a fault C2 must detect)
deleteTailKeepsLFLeft(t, startNode, cnt, splitPos) ==
    LET p   == PieceOf(t, startNode)
        ls1 == removeValues(p.lineStarts, splitPos.index + 1,
                            Len(p.lineStarts) - splitPos.index - 1)
        ls2 == changeValue(ls1, splitPos.index, splitPos.remainder)
        t1  == setPiece(t, startNode, [p EXCEPT !.length = @ - cnt,
                                                !.lineFeedCnt = splitPos.index,
                                                !.lineStarts = ls2])
    IN  updateMetadata(t1, startNode, -cnt, 0)

\* delete inside one node: "delete tail"
deleteTail(t, startNode, cnt, splitPos) ==
    LET p   == PieceOf(t, startNode)
        lf_delta == splitPos.index - p.lineFeedCnt
        ls1 == removeValues(p.lineStarts, splitPos.index + 1,
                            Len(p.lineStarts) - splitPos.index - 1)
        ls2 == changeValue(ls1, splitPos.index, splitPos.remainder)
        t1  == setPiece(t, startNode, [p EXCEPT !.length = @ - cnt,
                                                !.lineFeedCnt = splitPos.index,
                                                !.lineStarts = ls2])
    IN  updateMetadata(t1, startNode, -cnt, lf_delta)

\* delete inside one node: "delete content in the middle", the node is split in two
deleteMiddle(t, startNode, offset, cnt, length, startNodeOffsetInDocument, splitPos, endSplitPos) ==
    LET p   == PieceOf(t, startNode)
        oldLineLengthsVal == p.lineStarts
        lf_delta == splitPos.index - p.lineFeedCnt
        ls1 == changeValue(slice(oldLineLengthsVal, 0, splitPos.index + 1),
                           splitPos.index, splitPos.remainder)
        t1  == setPiece(t, startNode, [p EXCEPT !.length = offset - startNodeOffsetInDocument,
                                                !.lineFeedCnt = splitPos.index,
                                                !.lineStarts = ls1])
        t2  == updateMetadata(t1, startNode, -(startNodeOffsetInDocument + length - offset),
                              lf_delta)
        newPieceLength == startNodeOffsetInDocument + length - offset - cnt
        nls0 == slice(oldLineLengthsVal, endSplitPos.index, Len(oldLineLengthsVal))
        newPiece == Piece(p.isOriginalBuffer,
                          offset + cnt - startNodeOffsetInDocument + p.offset,
                          newPieceLength,
                          Len(oldLineLengthsVal) - endSplitPos.index - 1,
                          changeValue(nls0, 0, nls0[1] - endSplitPos.remainder))
    IN  IF newPieceLength <= 0 THEN t2 ELSE rbInsertRight(t2, startNode, newPiece)

\* for (node = secondNode; node !== SENTINEL && node !== endNode; node = node.next())
RECURSIVE collectNodesToDel(_, _, _)
collectNodesToDel(t, n, endNode) ==
    IF n # SENTINEL /\ n # endNode
    THEN <<n>> \o collectNodesToDel(t, next(t, n), endNode)
    ELSE <<>>

RECURSIVE rbDeleteAll(_, _)
rbDeleteAll(t, nodesToDel) ==
    IF nodesToDel = <<>> THEN t
    ELSE rbDeleteAll(rbDelete(t, Head(nodesToDel)), Tail(nodesToDel))

\* delete across several nodes: update firstTouchedNode
deleteAcrossFirst(t, startNode, offset, length, startNodeOffsetInDocument, splitPos) ==
    LET p   == PieceOf(t, startNode)
        lf_delta == splitPos.index - p.lineFeedCnt
        ls1 == removeValues(p.lineStarts, splitPos.index + 1,
                            Len(p.lineStarts) - splitPos.index - 1)
        ls2 == changeValue(ls1, splitPos.index, splitPos.remainder)
    IN  updateMetadata(
            setPiece(t, startNode, [p EXCEPT !.length = offset - startNodeOffsetInDocument,
                                             !.lineFeedCnt = splitPos.index,
                                             !.lineStarts = ls2]),
            startNode, -(startNodeOffsetInDocument + length - offset), lf_delta)

\* the update of lastTouchedNode that moves the piece's offset and keeps its length, so
\* that the piece reaches beyond the bytes it owned (a fault C37 must detect)
deleteAcrossLastKeepsLength(t, endNode, offset, cnt, endNodeOffsetInDocument) ==
    LET q   == PieceOf(t, endNode)
        endSplitPos == getIndexOf(q.lineStarts, offset - endNodeOffsetInDocument + cnt)
        els1 == changeValue(q.lineStarts, endSplitPos.index,
                            q.lineStarts[endSplitPos.index + 1] - endSplitPos.remainder)
        els2 == removeValues(els1, 0, endSplitPos.index)
    IN  updateMetadata(
            setPiece(t, endNode,
                     [q EXCEPT !.offset = @ + (offset + cnt - endNodeOffsetInDocument),
                               !.lineFeedCnt = @ - endSplitPos.index,
                               !.lineStarts = els2]),
            endNode, -(offset + cnt - endNodeOffsetInDocument), -endSplitPos.index)

\* delete across several nodes: update lastTouchedNode
deleteAcrossLast(t, endNode, offset, cnt, endNodeOffsetInDocument) ==
    LET q   == PieceOf(t, endNode)
        endSplitPos == getIndexOf(q.lineStarts, offset - endNodeOffsetInDocument + cnt)
        els1 == changeValue(q.lineStarts, endSplitPos.index,
                            q.lineStarts[endSplitPos.index + 1] - endSplitPos.remainder)
        els2 == removeValues(els1, 0, endSplitPos.index)
    IN  updateMetadata(
            setPiece(t, endNode,
                     [q EXCEPT !.length = @ - (offset + cnt - endNodeOffsetInDocument),
                               !.offset = @ + (offset + cnt - endNodeOffsetInDocument),
                               !.lineFeedCnt = @ - endSplitPos.index,
                               !.lineStarts = els2]),
            endNode, -(offset + cnt - endNodeOffsetInDocument), -endSplitPos.index)

\* delete across several nodes: collect nodesToDel and rbDelete each of them
deleteAcrossNodes(t, startNode, endNode) ==
    LET first == IF PieceOf(t, endNode).length = 0 THEN <<endNode>> ELSE <<>>
        secondNode == next(t, startNode)
    IN  rbDeleteAll(t, first \o (IF secondNode # endNode
                                 THEN collectNodesToDel(t, secondNode, endNode) ELSE <<>>))

\* delete across several nodes
deleteAcross(t, startNode, endNode, offset, cnt, length, startNodeOffsetInDocument, splitPos) ==
    deleteAcrossNodes(
        deleteAcrossLast(
            deleteAcrossFirst(t, startNode, offset, length, startNodeOffsetInDocument, splitPos),
            endNode, offset, cnt, offsetOfNode(t, endNode)),
        startNode, endNode)

delete(t, offset, cnt) ==
    IF t.root # SENTINEL
    THEN LET startPosition == nodeAt(t, offset)
             endPosition == nodeAt(t, offset + cnt)
             startNode == startPosition.node
             endNode == endPosition.node
             length == PieceOf(t, startNode).length
             startNodeOffsetInDocument == offsetOfNode(t, startNode)
             splitPos == getIndexOf(PieceOf(t, startNode).lineStarts,
                                    offset - startNodeOffsetInDocument)
         IN  IF startNode = endNode
             THEN LET endSplitPos == getIndexOf(PieceOf(t, startNode).lineStarts,
                                                offset - startNodeOffsetInDocument + cnt)
                  IN  IF startNodeOffsetInDocument = offset
                      THEN IF cnt = length THEN rbDelete(t, startNode)
                           ELSE deleteHead(t, startNode, cnt, endSplitPos)
                      ELSE IF startNodeOffsetInDocument + length = offset + cnt
                      THEN deleteTail(t, startNode, cnt, splitPos)
                      ELSE deleteMiddle(t, startNode, offset, cnt, length,
                                        startNodeOffsetInDocument, splitPos, endSplitPos)
             ELSE deleteAcross(t, startNode, endNode, offset, cnt, length,
                               startNodeOffsetInDocument, splitPos)
    ELSE t

\* objects no longer referenced from the buffer are reclaimed; the heap keeps the
\* sentinel and the nodes linked in the tree
RECURSIVE Reachable(_, _)
Reachable(t, n) ==
    IF n = SENTINEL \/ n = NullNode THEN {}
    ELSE {n} \cup Reachable(t, Left(t, n)) \cup Reachable(t, Right(t, n))

Collect(t) ==
    LET keep == {SENTINEL} \cup Reachable(t, t.root)
    IN  [t EXCEPT !.node = [i \in keep |-> t.node[i]]]

----------------------------------------------------------------------------
(* Reads *)

RECURSIVE getContentOfSubTree(_, _)
getContentOfSubTree(t, n) ==
    IF n = SENTINEL THEN <<>>
    ELSE getContentOfSubTree(t, Left(t, n))
         \o substr(BufferOf(t, n), PieceOf(t, n).offset, PieceOf(t, n).length)
         \o getContentOfSubTree(t, Right(t, n))

getLinesContent(t) == getContentOfSubTree(t, t.root)

RECURSIVE getLineCountFrom(_, _, _)
getLineCountFrom(t, x, ret) ==
    IF x # SENTINEL
    THEN getLineCountFrom(t, Right(t, x), ret + t.node[x].lf_left + PieceOf(t, x).lineFeedCnt)
    ELSE ret

\* getLineCount that stops at the root instead of walking the right spine (a fault C5
\* must detect)
getLineCountOfRoot(t) == 1 + t.node[t.root].lf_left + LFOrZero(t, t.root)

getLineCount(t) == getLineCountFrom(t, t.root, 1)

RECURSIVE getOffsetAt2From(_, _, _, _, _)
getOffsetAt2From(t, x, lineNumber, column, leftLen) ==
    IF x = SENTINEL THEN leftLen
    ELSE IF Left(t, x) # SENTINEL /\ t.node[x].lf_left + 1 >= lineNumber
         THEN getOffsetAt2From(t, Left(t, x), lineNumber, column, leftLen)
    ELSE IF t.node[x].lf_left + PieceOf(t, x).lineFeedCnt + 1 >= lineNumber
         THEN leftLen + t.node[x].size_left
              + getAccumulatedValue(PieceOf(t, x).lineStarts,
                                    lineNumber - t.node[x].lf_left - 2)
              + column - 1
    ELSE getOffsetAt2From(t, Right(t, x),
                          lineNumber - (t.node[x].lf_left + PieceOf(t, x).lineFeedCnt),
                          column,
                          leftLen + t.node[x].size_left + PieceOf(t, x).length)

\* getOffsetAt2 that answers with the start of the line (a fault C30 must detect)
getOffsetAt2DropsColumn(t, lineNumber, column) ==
    getOffsetAt2From(t, t.root, lineNumber, 1, 0)

getOffsetAt2(t, lineNumber, column) == getOffsetAt2From(t, t.root, lineNumber, column, 0)

Position(lineNumber, column) == [lineNumber |-> lineNumber, column |-> column]

getOffsetAt(t, position) == getOffsetAt2(t, position.lineNumber, position.column)

RECURSIVE getPositionAtFrom(_, _, _, _)
getPositionAtFrom(t, x, offset, lfCnt) ==
    IF x = SENTINEL THEN Null
    ELSE IF t.node[x].size_left # 0 /\ t.node[x].size_left >= offset
         THEN getPositionAtFrom(t, Left(t, x), offset, lfCnt)
    ELSE IF t.node[x].size_left + PieceOf(t, x).length >= offset
         THEN LET out == getIndexOf(PieceOf(t, x).lineStarts, offset - t.node[x].size_left)
                  pr == prev(t, x)
                  column == IF out.index = 0 /\ pr # SENTINEL
                            THEN LET lineLens == PieceOf(t, pr).lineStarts
                                 IN  lineLens[Len(lineLens)]
                            ELSE 0
              IN  Position(lfCnt + t.node[x].lf_left + out.index + 1,
                           column + out.remainder + 1)
    ELSE getPositionAtFrom(t, Right(t, x),
                           offset - (t.node[x].size_left + PieceOf(t, x).length),
                           lfCnt + t.node[x].lf_left + PieceOf(t, x).lineFeedCnt)

getPositionAt(t, offset) == getPositionAtFrom(t, t.root, offset, 0)

\* nodeAt2, the in-order search for the node that contains position.column
\* the successor chase that stops at the first successor whatever its length (a fault
\* C29 must detect)
nodeAt2ChaseStopsAtFirst(t, x, column) ==
    IF x = SENTINEL THEN Null
    ELSE IF PieceOf(t, x).lineFeedCnt > 0
         THEN [node |-> x,
               remainder |-> Min(column - 1, getAccumulatedValue(PieceOf(t, x).lineStarts, 0))]
    ELSE [node |-> x, remainder |-> Min(column - 1, PieceOf(t, x).length)]

RECURSIVE nodeAt2Chase(_, _, _)
nodeAt2Chase(t, x, column) ==
    IF x = SENTINEL THEN Null
    ELSE IF PieceOf(t, x).lineFeedCnt > 0
         THEN [node |-> x,
               remainder |-> Min(column - 1, getAccumulatedValue(PieceOf(t, x).lineStarts, 0))]
    ELSE IF PieceOf(t, x).length >= column - 1
         THEN [node |-> x, remainder |-> column - 1]
    ELSE nodeAt2Chase(t, next(t, x), column - PieceOf(t, x).length)

RECURSIVE nodeAt2From(_, _, _, _)
nodeAt2From(t, x, lineNumber, column) ==
    IF x = SENTINEL THEN nodeAt2Chase(t, next(t, x), column)
    ELSE IF Left(t, x) # SENTINEL /\ t.node[x].lf_left >= lineNumber - 1
         THEN nodeAt2From(t, Left(t, x), lineNumber, column)
    ELSE IF t.node[x].lf_left + PieceOf(t, x).lineFeedCnt > lineNumber - 1
         THEN LET prevAccumualtedValue ==
                      getAccumulatedValue(PieceOf(t, x).lineStarts,
                                          lineNumber - t.node[x].lf_left - 2)
                  accumualtedValue ==
                      getAccumulatedValue(PieceOf(t, x).lineStarts,
                                          lineNumber - t.node[x].lf_left - 1)
              IN  [node |-> x,
                   remainder |-> Min(prevAccumualtedValue + column - 1, accumualtedValue)]
    ELSE IF t.node[x].lf_left + PieceOf(t, x).lineFeedCnt = lineNumber - 1
         THEN LET prevAccumualtedValue ==
                      getAccumulatedValue(PieceOf(t, x).lineStarts,
                                          lineNumber - t.node[x].lf_left - 2)
              IN  IF prevAccumualtedValue + column - 1 <= PieceOf(t, x).length
                  THEN [node |-> x, remainder |-> prevAccumualtedValue + column - 1]
                  ELSE nodeAt2Chase(t, next(t, x),
                                    column - (PieceOf(t, x).length - prevAccumualtedValue))
    ELSE nodeAt2From(t, Right(t, x),
                     lineNumber - (t.node[x].lf_left + PieceOf(t, x).lineFeedCnt), column)

nodeAt2(t, position) == nodeAt2From(t, t.root, position.lineNumber, position.column)

\* getValueInRange that leaves out the nodes between the start node and the end node
\* (a fault C12 must detect)
RECURSIVE getValueInRangeSkipsInterior(_, _, _, _)
getValueInRangeSkipsInterior(t, x, endPosition, ret) ==
    IF x = SENTINEL THEN ret
    ELSE IF x = endPosition.node
         THEN ret \o substring(BufferOf(t, x), PieceOf(t, x).offset,
                               PieceOf(t, x).offset + endPosition.remainder)
    ELSE getValueInRangeSkipsInterior(t, next(t, x), endPosition, ret)

\* getValueInRange, the walk over the nodes after the start node
RECURSIVE getValueInRangeWalk(_, _, _, _)
getValueInRangeWalk(t, x, endPosition, ret) ==
    IF x = SENTINEL THEN ret
    ELSE IF x = endPosition.node
         THEN ret \o substring(BufferOf(t, x), PieceOf(t, x).offset,
                               PieceOf(t, x).offset + endPosition.remainder)
    ELSE getValueInRangeWalk(t, next(t, x), endPosition,
                             ret \o substr(BufferOf(t, x), PieceOf(t, x).offset,
                                           PieceOf(t, x).length))

Range(startLineNumber, startColumn, endLineNumber, endColumn) ==
    [startLineNumber |-> startLineNumber, startColumn |-> startColumn,
     endLineNumber |-> endLineNumber, endColumn |-> endColumn]

isEmpty(range) ==
    range.startLineNumber = range.endLineNumber /\ range.startColumn = range.endColumn

getStartPosition(range) == Position(range.startLineNumber, range.startColumn)
getEndPosition(range) == Position(range.endLineNumber, range.endColumn)

getValueInRange(t, range) ==
    IF range.startLineNumber = range.endLineNumber /\ range.startColumn = range.endColumn
    THEN <<>>
    ELSE LET startPosition == nodeAt2(t, getStartPosition(range))
             endPosition == nodeAt2(t, getEndPosition(range))
             x == startPosition.node
         IN  IF startPosition.node = endPosition.node
             THEN substring(BufferOf(t, x), PieceOf(t, x).offset + startPosition.remainder,
                            PieceOf(t, x).offset + endPosition.remainder)
             ELSE getValueInRangeWalk(t, next(t, x), endPosition,
                      substring(BufferOf(t, x), PieceOf(t, x).offset + startPosition.remainder,
                                PieceOf(t, x).offset + PieceOf(t, x).length))

getValueLengthInRange(t, range) ==
    IF isEmpty(range) THEN 0
    ELSE IF range.startLineNumber = range.endLineNumber
         THEN range.endColumn - range.startColumn
    ELSE getOffsetAt(t, getEndPosition(range)) - getOffsetAt(t, getStartPosition(range))

\* getLineContent, the in-order search for the rest of the line
RECURSIVE getLineContentChase(_, _, _)
getLineContentChase(t, x, ret) ==
    IF x = SENTINEL THEN ret
    ELSE IF PieceOf(t, x).lineFeedCnt > 0
         THEN ret \o substring(BufferOf(t, x), PieceOf(t, x).offset,
                       PieceOf(t, x).offset + getAccumulatedValue(PieceOf(t, x).lineStarts, 0))
    ELSE getLineContentChase(t, next(t, x),
                             ret \o substr(BufferOf(t, x), PieceOf(t, x).offset,
                                           PieceOf(t, x).length))

RECURSIVE getLineContentFrom(_, _, _)
getLineContentFrom(t, x, lineNumber) ==
    IF x = SENTINEL THEN getLineContentChase(t, next(t, x), <<>>)
    ELSE IF Left(t, x) # SENTINEL /\ t.node[x].lf_left >= lineNumber - 1
         THEN getLineContentFrom(t, Left(t, x), lineNumber)
    ELSE IF t.node[x].lf_left + PieceOf(t, x).lineFeedCnt > lineNumber - 1
         THEN substring(BufferOf(t, x),
                  PieceOf(t, x).offset + getAccumulatedValue(PieceOf(t, x).lineStarts,
                                             lineNumber - t.node[x].lf_left - 2),
                  PieceOf(t, x).offset + getAccumulatedValue(PieceOf(t, x).lineStarts,
                                             lineNumber - t.node[x].lf_left - 1))
    ELSE IF t.node[x].lf_left + PieceOf(t, x).lineFeedCnt = lineNumber - 1
         THEN getLineContentChase(t, next(t, x),
                  substring(BufferOf(t, x),
                      PieceOf(t, x).offset + getAccumulatedValue(PieceOf(t, x).lineStarts,
                                                 lineNumber - t.node[x].lf_left - 2),
                      PieceOf(t, x).offset + PieceOf(t, x).length))
    ELSE getLineContentFrom(t, Right(t, x),
                            lineNumber - (t.node[x].lf_left + PieceOf(t, x).lineFeedCnt))

getLineContent(t, lineNumber) == getLineContentFrom(t, t.root, lineNumber)

\* getValueInRange: `startPosition.node`, `endPosition.node` throw when nodeAt2 returned null
getValueInRangeThrows(t, range) ==
    /\ ~(range.startLineNumber = range.endLineNumber /\ range.startColumn = range.endColumn)
    /\ (nodeAt2(t, getStartPosition(range)) = Null \/ nodeAt2(t, getEndPosition(range)) = Null)

\* The read methods as calls: whether the call threw, the value returned and the buffer
\* the call leaves behind. Each of them assigns only to its locals (x, ret, lfCnt,
\* lineNumber, column, pos, ...). Only getValueInRange reads a property of a reference
\* that can be null; the others contain no throw statement and return for every argument.
nodeAtCall(t, offset) == [threw |-> FALSE, t |-> t, value |-> nodeAt(t, offset)]

\* nodeAt2 that leaves the sentinel's parent on the root (a fault C19 must detect)
nodeAt2CallMovesSentinel(t, position) ==
    [threw |-> FALSE, t |-> [t EXCEPT !.node[SENTINEL].parent = t.root],
     value |-> nodeAt2(t, position)]

nodeAt2Call(t, position) == [threw |-> FALSE, t |-> t, value |-> nodeAt2(t, position)]

getLineContentCall(t, lineNumber) ==
    [threw |-> FALSE, t |-> t, value |-> getLineContent(t, lineNumber)]

getValueInRangeCall(t, range) ==
    IF getValueInRangeThrows(t, range)
    THEN [threw |-> TRUE, t |-> t, value |-> Null]
    ELSE [threw |-> FALSE, t |-> t, value |-> getValueInRange(t, range)]

getLineCountCall(t) == [threw |-> FALSE, t |-> t, value |-> getLineCount(t)]

getOffsetAtCall(t, position) == [threw |-> FALSE, t |-> t, value |-> getOffsetAt(t, position)]

getPositionAtCall(t, offset) == [threw |-> FALSE, t |-> t, value |-> getPositionAt(t, offset)]

offsetOfNodeCall(t, n) == [threw |-> FALSE, t |-> t, value |-> offsetOfNode(t, n)]

----------------------------------------------------------------------------
(* Helpers of vs/base/common/strings and vs/editor/common/core *)

RTLChars == {Alef}
NonBasicASCIIChars == {Alef, EAcute}

containsRTL(str) == \E i \in 1..Len(str) : str[i] \in RTLChars
isBasicASCII(str) == \A i \in 1..Len(str) : str[i] \notin NonBasicASCIIChars

\* index of the first character that is neither a space nor a tab, -1 if there is none
RECURSIVE firstNonWhitespaceIndexFrom(_, _)
firstNonWhitespaceIndexFrom(str, i) ==
    IF i >= Len(str) THEN -1
    ELSE IF str[i + 1] # " " /\ str[i + 1] # "\t" THEN i
    ELSE firstNonWhitespaceIndexFrom(str, i + 1)

firstNonWhitespaceIndex(str) == firstNonWhitespaceIndexFrom(str, 0)

\* String.prototype.split(/\r\n|\r|\n/)
RECURSIVE splitFrom(_, _)
splitFrom(text, cur) ==
    IF text = <<>> THEN <<cur>>
    ELSE IF Head(text) = CR /\ Len(text) >= 2 /\ text[2] = LF
         THEN <<cur>> \o splitFrom(Tail(Tail(text)), <<>>)
    ELSE IF Head(text) = CR \/ Head(text) = LF
         THEN <<cur>> \o splitFrom(Tail(text), <<>>)
    ELSE splitFrom(Tail(text), Append(cur, Head(text)))

split(text) == splitFrom(text, <<>>)

\* Array.prototype.join(separator)
RECURSIVE join(_, _)
join(lines, separator) ==
    IF lines = <<>> THEN <<>>
    ELSE IF Len(lines) = 1 THEN lines[1]
    ELSE lines[1] \o separator \o join(Tail(lines), separator)

\* Position.isBefore
isBefore(a, b) ==
    \/ a.lineNumber < b.lineNumber
    \/ a.lineNumber = b.lineNumber /\ a.column < b.column

\* Range.compareRangesUsingEnds: by end position, then by start position
compareRangesUsingEnds(a, b) ==
    IF a.endLineNumber = b.endLineNumber
    THEN IF a.endColumn = b.endColumn
         THEN IF a.startLineNumber = b.startLineNumber
              THEN a.startColumn - b.startColumn
              ELSE a.startLineNumber - b.startLineNumber
         ELSE a.endColumn - b.endColumn
    ELSE a.endLineNumber - b.endLineNumber

----------------------------------------------------------------------------
(* The edit applier *)

_sortOpsAscending(a, b) ==
    LET r == compareRangesUsingEnds(a.range, b.range)
    IN  IF r = 0 THEN a.sortIndex - b.sortIndex ELSE r

\* _sortOpsDescending that runs identical ranges in input order (a fault C8 must detect)
_sortOpsDescendingTiesAscending(a, b) ==
    LET r == compareRangesUsingEnds(a.range, b.range)
    IN  IF r = 0 THEN a.sortIndex - b.sortIndex ELSE -r

_sortOpsDescending(a, b) ==
    LET r == compareRangesUsingEnds(a.range, b.range)
    IN  IF r = 0 THEN b.sortIndex - a.sortIndex ELSE -r

\* Array.prototype.sort(compare) on operations: each element is inserted after the
\* elements that do not compare greater; the comparators never return 0
RECURSIVE insertOp(_, _, _)
insertOp(sorted, op, descending) ==
    IF sorted = <<>> THEN <<op>>
    ELSE LET c == IF descending THEN _sortOpsDescending(op, Head(sorted))
                  ELSE _sortOpsAscending(op, Head(sorted))
         IN  IF c < 0 THEN <<op>> \o sorted
             ELSE <<Head(sorted)>> \o insertOp(Tail(sorted), op, descending)

RECURSIVE sortOps(_, _)
sortOps(ops, descending) ==
    IF ops = <<>> THEN <<>>
    ELSE insertOp(sortOps(SubSeq(ops, 1, Len(ops) - 1), descending), ops[Len(ops)], descending)

\* the validation loop that scans every text, whatever the flags are (a fault C33 must
\* detect)
RECURSIVE validateFromRescans(_, _, _, _, _)
validateFromRescans(t, rawOperations, i, rtl, nonBasicASCII) ==
    IF i > Len(rawOperations)
    THEN [operations |-> <<>>, mightContainRTL |-> rtl,
          mightContainNonBasicASCII |-> nonBasicASCII]
    ELSE LET op == rawOperations[i]
             rtl1 == IF op.text # <<>> THEN containsRTL(op.text) ELSE rtl
             nba1 == IF op.text # <<>> THEN ~isBasicASCII(op.text) ELSE nonBasicASCII
             validated ==
                 [sortIndex |-> i - 1,
                  identifier |-> op.identifier,
                  range |-> op.range,
                  rangeOffset |-> getOffsetAt(t, getStartPosition(op.range)),
                  rangeLength |-> getValueLengthInRange(t, op.range),
                  lines |-> IF op.text # <<>> THEN split(op.text) ELSE NullLines,
                  forceMoveMarkers |-> op.forceMoveMarkers,
                  isAutoWhitespaceEdit |-> op.isAutoWhitespaceEdit]
             rest == validateFromRescans(t, rawOperations, i + 1, rtl1, nba1)
         IN  [rest EXCEPT !.operations = <<validated>> \o @]

\* the loop of _applyEdits that builds the validated operations and scans the texts
RECURSIVE validateFrom(_, _, _, _, _)
validateFrom(t, rawOperations, i, rtl, nonBasicASCII) ==
    IF i > Len(rawOperations)
    THEN [operations |-> <<>>, mightContainRTL |-> rtl,
          mightContainNonBasicASCII |-> nonBasicASCII]
    ELSE LET op == rawOperations[i]
             rtl1 == IF ~rtl /\ op.text # <<>> THEN containsRTL(op.text) ELSE rtl
             nba1 == IF ~nonBasicASCII /\ op.text # <<>>
                     THEN ~isBasicASCII(op.text) ELSE nonBasicASCII
             validated ==
                 [sortIndex |-> i - 1,
                  identifier |-> op.identifier,
                  range |-> op.range,
                  rangeOffset |-> getOffsetAt(t, getStartPosition(op.range)),
                  rangeLength |-> getValueLengthInRange(t, op.range),
                  lines |-> IF op.text # <<>> THEN split(op.text) ELSE NullLines,
                  forceMoveMarkers |-> op.forceMoveMarkers,
                  isAutoWhitespaceEdit |-> op.isAutoWhitespaceEdit]
             rest == validateFrom(t, rawOperations, i + 1, rtl1, nba1)
         IN  [rest EXCEPT !.operations = <<validated>> \o @]

\* hasOverlap that also rejects ranges that touch (a fault C9 must detect)
hasOverlapOrTouch(operations) ==
    \E i \in 1..(Len(operations) - 1) :
        ~isBefore(getEndPosition(operations[i].range),
                  getStartPosition(operations[i + 1].range))

\* "Overlapping ranges are not allowed!"
hasOverlap(operations) ==
    \E i \in 1..(Len(operations) - 1) :
        isBefore(getStartPosition(operations[i + 1].range), getEndPosition(operations[i].range))

RECURSIVE _getInverseEditRangesFrom(_, _, _, _)
_getInverseEditRangesFrom(operations, i, prevOpEndLineNumber, prevOpEndColumn) ==
    IF i > Len(operations) THEN <<>>
    ELSE LET op == operations[i]
             prevOp == IF i > 1 THEN operations[i - 1] ELSE Null
             startLineNumber ==
                 IF prevOp # Null
                 THEN IF prevOp.range.endLineNumber = op.range.startLineNumber
                      THEN prevOpEndLineNumber
                      ELSE prevOpEndLineNumber
                           + (op.range.startLineNumber - prevOp.range.endLineNumber)
                 ELSE op.range.startLineNumber
             startColumn ==
                 IF prevOp # Null
                 THEN IF prevOp.range.endLineNumber = op.range.startLineNumber
                      THEN prevOpEndColumn + (op.range.startColumn - prevOp.range.endColumn)
                      ELSE op.range.startColumn
                 ELSE op.range.startColumn
             resultRange ==
                 IF op.lines # NullLines /\ Len(op.lines) > 0
                 THEN LET lineCount == Len(op.lines)
                          firstLine == op.lines[1]
                          lastLine == op.lines[lineCount]
                      IN  IF lineCount = 1
                          THEN Range(startLineNumber, startColumn,
                                     startLineNumber, startColumn + Len(firstLine))
                          ELSE Range(startLineNumber, startColumn,
                                     startLineNumber + lineCount - 1, Len(lastLine) + 1)
                 ELSE Range(startLineNumber, startColumn, startLineNumber, startColumn)
         IN  <<resultRange>> \o _getInverseEditRangesFrom(operations, i + 1,
                                    resultRange.endLineNumber, resultRange.endColumn)

\* inverse ranges that start where the operation starts, not shifted by the operations
\* before it (a fault C23 must detect)
_getInverseEditRangesUnshifted(operations) ==
    [i \in 1..Len(operations) |->
        _getInverseEditRangesFrom(<<operations[i]>>, 1, 0, 0)[1]]

_getInverseEditRanges(operations) == _getInverseEditRangesFrom(operations, 1, 0, 0)

\* the candidates one operation records (lines reverseRange.start .. reverseRange.end)
RECURSIVE candidatesOfOp(_, _, _, _)
candidatesOfOp(t, op, reverseRange, lineNumber) ==
    IF lineNumber > reverseRange.endLineNumber THEN <<>>
    ELSE LET currentLineContent ==
                 IF lineNumber = reverseRange.startLineNumber
                 THEN getLineContent(t, op.range.startLineNumber) ELSE <<>>
             skip == lineNumber = reverseRange.startLineNumber
                     /\ firstNonWhitespaceIndex(currentLineContent) # -1
         IN  (IF skip THEN <<>>
              ELSE <<[lineNumber |-> lineNumber, oldContent |-> currentLineContent]>>)
             \o candidatesOfOp(t, op, reverseRange, lineNumber + 1)

RECURSIVE trimCandidatesFrom(_, _, _, _, _)
trimCandidatesFrom(t, operations, reverseRanges, recordTrimAutoWhitespace, i) ==
    IF i > Len(operations) THEN <<>>
    ELSE (IF recordTrimAutoWhitespace /\ operations[i].isAutoWhitespaceEdit
             /\ isEmpty(operations[i].range)
          THEN candidatesOfOp(t, operations[i], reverseRanges[i],
                              reverseRanges[i].startLineNumber)
          ELSE <<>>)
         \o trimCandidatesFrom(t, operations, reverseRanges, recordTrimAutoWhitespace, i + 1)

\* newTrimAutoWhitespaceCandidates.sort((a, b) => b.lineNumber - a.lineNumber)
RECURSIVE insertCandidate(_, _)
insertCandidate(sorted, c) ==
    IF sorted = <<>> THEN <<c>>
    ELSE IF Head(sorted).lineNumber - c.lineNumber < 0 THEN <<c>> \o sorted
    ELSE <<Head(sorted)>> \o insertCandidate(Tail(sorted), c)

RECURSIVE sortCandidates(_)
sortCandidates(cs) ==
    IF cs = <<>> THEN <<>>
    ELSE insertCandidate(sortCandidates(SubSeq(cs, 1, Len(cs) - 1)), cs[Len(cs)])

RECURSIVE trimLineNumbersFrom(_, _, _)
trimLineNumbersFrom(t, candidates, i) ==
    IF i > Len(candidates) THEN <<>>
    ELSE LET lineNumber == candidates[i].lineNumber
             duplicate == i > 1 /\ candidates[i - 1].lineNumber = lineNumber
             prevContent == candidates[i].oldContent
             lineContent == getLineContent(t, lineNumber)
             drop == \/ duplicate
                     \/ Len(lineContent) = 0
                     \/ lineContent = prevContent
                     \/ firstNonWhitespaceIndex(lineContent) # -1
         IN  (IF drop THEN <<>> ELSE <<lineNumber>>) \o trimLineNumbersFrom(t, candidates, i + 1)

\* the raw content-change events one executed operation emits
RECURSIVE lineChangedEvents(_, _, _)
lineChangedEvents(t, j, lastLine) ==
    IF j > lastLine THEN <<>>
    ELSE <<[changeType |-> "LineChanged", lineNumber |-> j, detail |-> getLineContent(t, j)]>>
         \o lineChangedEvents(t, j + 1, lastLine)

\* the events of one operation with the LineChanged events of the deleted lines as well,
\* up to the end line of the range (a fault C21 must detect)
rawChangesOfOpChangesDeletedLines(t, op) ==
    LET startLineNumber == op.range.startLineNumber
        endLineNumber == op.range.endLineNumber
        deletingLinesCnt == endLineNumber - startLineNumber
        insertingLinesCnt == IF op.lines # NullLines THEN Len(op.lines) - 1 ELSE 0
        editingLinesCnt == Min(deletingLinesCnt, insertingLinesCnt)
        newLinesContent0 == SubSeq(op.lines, editingLinesCnt + 2, insertingLinesCnt + 1)
        newLinesContent ==
            [newLinesContent0 EXCEPT ![Len(newLinesContent0)] =
                getLineContent(t, startLineNumber + insertingLinesCnt - 1)]
    IN  lineChangedEvents(t, startLineNumber, Max(endLineNumber, startLineNumber + editingLinesCnt))
        \o (IF editingLinesCnt < deletingLinesCnt
            THEN <<[changeType |-> "LinesDeleted",
                    fromLineNumber |-> startLineNumber + editingLinesCnt + 1,
                    toLineNumber |-> endLineNumber]>>
            ELSE <<>>)
        \o (IF editingLinesCnt < insertingLinesCnt
            THEN <<[changeType |-> "LinesInserted",
                    fromLineNumber |-> startLineNumber + editingLinesCnt + 1,
                    toLineNumber |-> startLineNumber + insertingLinesCnt,
                    detail |-> join(newLinesContent, <<LF>>)]>>
            ELSE <<>>)

rawChangesOfOp(t, op) ==
    LET startLineNumber == op.range.startLineNumber
        endLineNumber == op.range.endLineNumber
        deletingLinesCnt == endLineNumber - startLineNumber
        insertingLinesCnt == IF op.lines # NullLines THEN Len(op.lines) - 1 ELSE 0
        editingLinesCnt == Min(deletingLinesCnt, insertingLinesCnt)
        newLinesContent0 == SubSeq(op.lines, editingLinesCnt + 2, insertingLinesCnt + 1)
        newLinesContent ==
            [newLinesContent0 EXCEPT ![Len(newLinesContent0)] =
                getLineContent(t, startLineNumber + insertingLinesCnt - 1)]
    IN  lineChangedEvents(t, startLineNumber, startLineNumber + editingLinesCnt)
        \o (IF editingLinesCnt < deletingLinesCnt
            THEN <<[changeType |-> "LinesDeleted",
                    fromLineNumber |-> startLineNumber + editingLinesCnt + 1,
                    toLineNumber |-> endLineNumber]>>
            ELSE <<>>)
        \o (IF editingLinesCnt < insertingLinesCnt
            THEN <<[changeType |-> "LinesInserted",
                    fromLineNumber |-> startLineNumber + editingLinesCnt + 1,
                    toLineNumber |-> startLineNumber + insertingLinesCnt,
                    detail |-> join(newLinesContent, <<LF>>)]>>
            ELSE <<>>)

\* the text an operation inserts: op.lines.join(this.getEOL())
textOfOp(t, op) == IF op.lines # NullLines THEN join(op.lines, t.EOL) ELSE <<>>

\* _doApplyEdits without the no-op shortcut (a fault C10 must detect)
neverNoOp(op) == FALSE

isNoOp(op) == isEmpty(op.range) /\ (op.lines = NullLines \/ Len(op.lines) = 0)

\* this.insert(text, op.rangeOffset), which _doApplyEdits calls only if there is text
insertText(t, text, offset) == IF text # <<>> THEN insert(t, text, offset) ELSE t

\* the buffer after one operation of _doApplyEdits ran: delete, then insert if there is text
executeOp(t, op) ==
    insertText(delete(t, op.rangeOffset, op.rangeLength), textOfOp(t, op), op.rangeOffset)

\* what _doApplyEdits records for one executed operation; t1 is the buffer after it ran
recordOp(acc, op, t1) ==
    [t |-> t1,
     rawContentChanges |-> acc.rawContentChanges \o rawChangesOfOp(t1, op),
     contentChanges |->
         Append(acc.contentChanges,
                [range |-> op.range, rangeLength |-> op.rangeLength,
                 text |-> textOfOp(acc.t, op), lines |-> op.lines,
                 rangeOffset |-> op.rangeOffset,
                 forceMoveMarkers |-> op.forceMoveMarkers])]

\* the loop of _doApplyEdits over the operations sorted descending
RECURSIVE _doApplyEditsFrom(_, _, _)
_doApplyEditsFrom(operations, i, acc) ==
    IF i > Len(operations) THEN acc
    ELSE IF isNoOp(operations[i]) THEN _doApplyEditsFrom(operations, i + 1, acc)
    ELSE _doApplyEditsFrom(operations, i + 1,
                           recordOp(acc, operations[i], executeOp(acc.t, operations[i])))

_doApplyEdits(t, operations) ==
    _doApplyEditsFrom(sortOps(operations, TRUE), 1,
                      [t |-> t, rawContentChanges |-> <<>>, contentChanges |-> <<>>])

\* _applyEdits: the result it returns, once the edits are applied
applyEditsResult(reverseOperations, candidates, done, recordTrimAutoWhitespace) ==
    [threw |-> FALSE, t |-> done.t,
     reverseOperations |-> reverseOperations,
     rawContentChanges |-> done.rawContentChanges,
     contentChanges |-> done.contentChanges,
     trimAutoWhitespaceLineNumbers |->
         IF recordTrimAutoWhitespace /\ Len(candidates) > 0
         THEN [isNull |-> FALSE,
               lineNumbers |-> trimLineNumbersFrom(done.t,
                   sortCandidates(candidates), 1)]
         ELSE Null]

\* reverse operations that carry the text the operation inserts instead of the text it
\* replaces (a fault C22 must detect)
reverseOperationsOfInsertedText(t, operations, reverseRanges) ==
    [i \in 1..Len(operations) |->
        [identifier |-> operations[i].identifier,
         range |-> reverseRanges[i],
         text |-> textOfOp(t, operations[i]),
         forceMoveMarkers |-> operations[i].forceMoveMarkers]]

\* _applyEdits: the reverse operations, read from the buffer before the edits are applied
reverseOperationsOf(t, operations, reverseRanges) ==
    [i \in 1..Len(operations) |->
        [identifier |-> operations[i].identifier,
         range |-> reverseRanges[i],
         text |-> getValueInRange(t, operations[i].range),
         forceMoveMarkers |-> operations[i].forceMoveMarkers]]

\* _applyEdits from the computation of the reverse ranges on
applyEditsReversed(t, v, operations, reverseRanges, recordTrimAutoWhitespace) ==
    applyEditsResult(
        reverseOperationsOf(t, operations, reverseRanges),
        trimCandidatesFrom(t, operations, reverseRanges, recordTrimAutoWhitespace, 1),
        _doApplyEdits([t EXCEPT !.mightContainRTL = v.mightContainRTL,
                                !.mightContainNonBasicASCII = v.mightContainNonBasicASCII],
                      operations),
        recordTrimAutoWhitespace)

\* _applyEdits once the operations are sorted ascending
applyEditsSorted(t, v, operations, recordTrimAutoWhitespace) ==
    IF hasOverlap(operations)
    THEN [threw |-> TRUE, t |-> t]
    ELSE applyEditsReversed(t, v, operations, _getInverseEditRanges(operations),
                            recordTrimAutoWhitespace)

\* _applyEdits once the operations are validated
applyEditsValidated(t, v, recordTrimAutoWhitespace) ==
    applyEditsSorted(t, v, sortOps(v.operations, FALSE), recordTrimAutoWhitespace)

_applyEdits(t, rawOperations, recordTrimAutoWhitespace) ==
    applyEditsValidated(
        t, validateFrom(t, rawOperations, 1, t.mightContainRTL, t.mightContainNonBasicASCII),
        recordTrimAutoWhitespace)

----------------------------------------------------------------------------
(* The buffer as a state machine *)

\* `this`: the fields of the TextBuffer and the heap
This ==
    [root |-> root, node |-> node, originalBuffer |-> originalBuffer,
     changeBuffer |-> changeBuffer, EOL |-> EOL, mightContainRTL |-> mightContainRTL,
     mightContainNonBasicASCII |-> mightContainNonBasicASCII]

Becomes(t) ==
    /\ root' = t.root
    /\ node' = t.node
    /\ originalBuffer' = t.originalBuffer
    /\ changeBuffer' = t.changeBuffer
    /\ EOL' = t.EOL
    /\ mightContainRTL' = t.mightContainRTL
    /\ mightContainNonBasicASCII' = t.mightContainNonBasicASCII

Constructed(t) ==
    /\ root = t.root
    /\ node = t.node
    /\ originalBuffer = t.originalBuffer
    /\ changeBuffer = t.changeBuffer
    /\ EOL = t.EOL
    /\ mightContainRTL = t.mightContainRTL
    /\ mightContainNonBasicASCII = t.mightContainNonBasicASCII

RECURSIVE StringsUpTo(_, _)
StringsUpTo(chars, n) ==
    IF n = 0 THEN {<<>>}
    ELSE LET shorter == StringsUpTo(chars, n - 1)
         IN  shorter \cup {Append(s, c) : s \in shorter, c \in chars}

DocChars == {"a", LF}
Originals == StringsUpTo(DocChars, MaxOrigLen)
Values == StringsUpTo(DocChars, MaxValueLen) \ {<<>>}
EOLs == {<<LF>>}

Init ==
    \E text \in Originals, eol \in EOLs :
        /\ Constructed(NewTextBuffer(text, eol, FALSE, TRUE))
        /\ ref = text
        /\ last = [op |-> "new"]
        /\ steps = 0

Insert(value, offset) ==
    /\ steps < MaxSteps
    /\ Len(ref) + Len(value) <= MaxDocLen
    /\ \E t \in {Collect(insert(This, value, offset))} : Becomes(t)
    /\ ref' = SubSeq(ref, 1, offset) \o value \o SubSeq(ref, offset + 1, Len(ref))
    /\ last' = [op |-> "insert", value |-> value, offset |-> offset, pre |-> This]
    /\ steps' = steps + 1

Delete(offset, cnt) ==
    /\ steps < MaxSteps
    /\ \E t \in {Collect(delete(This, offset, cnt))} : Becomes(t)
    /\ ref' = SubSeq(ref, 1, offset) \o SubSeq(ref, offset + cnt + 1, Len(ref))
    /\ last' = [op |-> "delete", offset |-> offset, cnt |-> cnt, pre |-> This]
    /\ steps' = steps + 1

Next ==
    \/ \E value \in Values, offset \in 0..Len(ref) : Insert(value, offset)
    \/ \E offset \in 0..Len(ref), cnt \in 0..Len(ref) :
           offset + cnt <= Len(ref) /\ Delete(offset, cnt)

Spec == Init /\ [][Next]_vars

(* The edit applier as a state machine: a buffer built by at most MaxPreSteps
   insert / delete calls, of at most MaxEditDocLen characters, receives one batch,
   and then the reverse operations that the batch returned. *)

EditOriginals == {<<>>, <<"a", LF>>, <<"a", LF, "a">>}
EditEOLs == {<<LF>>, <<CR, LF>>, <<CR>>}
EditTexts == {<<>>, <<"b">>, <<LF>>, <<"b", CR, "b">>, <<Alef>>}

InitEdits ==
    \E text \in EditOriginals, eol \in EditEOLs :
        /\ Constructed(NewTextBuffer(text, eol, FALSE, TRUE))
        /\ ref = text
        /\ last = [op |-> "new"]
        /\ steps = 0

\* the lines of a string: split at '\n', terminators removed
RECURSIVE LinesOfFrom(_, _)
LinesOfFrom(s, cur) ==
    IF s = <<>> THEN <<cur>>
    ELSE IF Head(s) = LF THEN <<cur>> \o LinesOfFrom(Tail(s), <<>>)
    ELSE LinesOfFrom(Tail(s), Append(cur, Head(s)))

LinesOf(s) == LinesOfFrom(s, <<>>)

\* the positions inside a document: 1 <= line <= line count, 1 <= column <= line length + 1
ValidPositions(s) ==
    LET ls == LinesOf(s)
    IN  UNION {{Position(l, c) : c \in 1..(Len(ls[l]) + 1)} : l \in 1..Len(ls)}

\* the ranges inside a document: start and end are valid positions, start <= end
ValidRanges(s) ==
    {Range(a.lineNumber, a.column, b.lineNumber, b.column) :
        <<a, b>> \in {pq \in ValidPositions(s) \X ValidPositions(s) :
                        ~isBefore(pq[2], pq[1])}}

\* the operations of a batch; an operation that inserts a bare line break is flagged
\* as an auto-whitespace edit, the first operation of a batch forces marker moves
RawOps(s) ==
    {[range |-> r, text |-> x] : r \in ValidRanges(s), x \in EditTexts}

Identified(ops) ==
    [i \in 1..Len(ops) |->
        [identifier |-> [major |-> 0, minor |-> i],
         range |-> ops[i].range,
         text |-> ops[i].text,
         forceMoveMarkers |-> (i = 1),
         isAutoWhitespaceEdit |-> (ops[i].text = <<LF>>)]]

\* byte offset of a valid position in a plain string
RECURSIVE LineStartOffset(_, _)
LineStartOffset(ls, l) == IF l <= 1 THEN 0 ELSE LineStartOffset(ls, l - 1) + Len(ls[l - 1]) + 1

OffsetOfPosition(s, pos) == LineStartOffset(LinesOf(s), pos.lineNumber) + pos.column - 1

StartOffset(s, range) == OffsetOfPosition(s, getStartPosition(range))
EndOffset(s, range) == OffsetOfPosition(s, getEndPosition(range))

\* two ranges overlap when each starts strictly before the other ends
Overlap(a, b) ==
    /\ isBefore(getStartPosition(a), getEndPosition(b))
    /\ isBefore(getStartPosition(b), getEndPosition(a))

SomePairOverlaps(ops) ==
    \E i, j \in 1..Len(ops) : i < j /\ Overlap(ops[i].range, ops[j].range)

\* a text with each of its line terminators \r\n, \r, \n replaced by eol
RECURSIVE NormalisedEOL(_, _)
NormalisedEOL(text, eol) ==
    IF text = <<>> THEN <<>>
    ELSE IF Head(text) = CR
         THEN eol \o NormalisedEOL(IF Len(text) >= 2 /\ text[2] = LF
                                   THEN Tail(Tail(text)) ELSE Tail(text), eol)
    ELSE IF Head(text) = LF THEN eol \o NormalisedEOL(Tail(text), eol)
    ELSE <<Head(text)>> \o NormalisedEOL(Tail(text), eol)

\* the operation of `remaining` that comes first in the document: smallest start, then
\* smallest end, then smallest position in the batch
FirstOf(s, ops, remaining) ==
    CHOOSE i \in remaining :
        \A j \in remaining \ {i} :
            LET si == StartOffset(s, ops[i].range)
                sj == StartOffset(s, ops[j].range)
                ei == EndOffset(s, ops[i].range)
                ej == EndOffset(s, ops[j].range)
            IN  \/ si < sj
                \/ si = sj /\ ei < ej
                \/ si = sj /\ ei = ej /\ i < j

\* the document with every range replaced at once by the text given for it
RECURSIVE ReplacedFrom(_, _, _, _, _)
ReplacedFrom(s, ops, texts, remaining, cursor) ==
    IF remaining = {} THEN SubSeq(s, cursor + 1, Len(s))
    ELSE LET i == FirstOf(s, ops, remaining)
         IN  SubSeq(s, cursor + 1, StartOffset(s, ops[i].range)) \o texts[i]
             \o ReplacedFrom(s, ops, texts, remaining \ {i}, EndOffset(s, ops[i].range))

Replaced(s, ops, texts) == ReplacedFrom(s, ops, texts, DOMAIN ops, 0)

\* the reference document after a batch: unchanged when two ranges overlap, else every
\* range replaced by its text with the line terminators normalised
EditedReference(s, ops, eol) ==
    IF SomePairOverlaps(ops) THEN s
    ELSE Replaced(s, ops, [i \in DOMAIN ops |-> NormalisedEOL(ops[i].text, eol)])

\* what a caller keeps of the ApplyEditResult, or of the failure
ResultOf(r) ==
    IF r.threw THEN [threw |-> TRUE]
    ELSE [threw |-> FALSE,
          reverseOperations |-> r.reverseOperations,
          rawContentChanges |-> r.rawContentChanges,
          contentChanges |-> r.contentChanges,
          trimAutoWhitespaceLineNumbers |-> r.trimAutoWhitespaceLineNumbers]

ApplyEdits(rawOperations) ==
    /\ \E r \in {_applyEdits(This, rawOperations, TRUE)} :
           /\ \E t \in {Collect(r.t)} : Becomes(t)
           /\ ref' = EditedReference(ref, rawOperations, EOL)
           /\ last' = [op |-> "applyEdits", rawOperations |-> rawOperations,
                       pre |-> This, undoes |-> Null, result |-> ResultOf(r)]
    /\ steps' = steps + 1

\* a reverse operation handed back as an operation of a new batch
AsRawOperation(reverseOperation) ==
    [identifier |-> reverseOperation.identifier,
     range |-> reverseOperation.range,
     text |-> reverseOperation.text,
     forceMoveMarkers |-> reverseOperation.forceMoveMarkers,
     isAutoWhitespaceEdit |-> FALSE]

ApplyReverse ==
    /\ last.op = "applyEdits"
    /\ last.undoes = Null
    /\ ~last.result.threw
    \* callers hand _applyEdits ranges that lie inside the document
    /\ \A i \in DOMAIN last.result.reverseOperations :
           last.result.reverseOperations[i].range \in ValidRanges(ref)
    /\ \E rawOperations \in {[i \in DOMAIN last.result.reverseOperations |->
                                AsRawOperation(last.result.reverseOperations[i])]} :
       \E r \in {_applyEdits(This, rawOperations, TRUE)} :
           /\ \E t \in {Collect(r.t)} : Becomes(t)
           /\ ref' = EditedReference(ref, rawOperations, EOL)
           /\ last' = [op |-> "applyEdits", rawOperations |-> rawOperations,
                       pre |-> This,
                       undoes |-> [isNull |-> FALSE,
                                   content |-> getLinesContent(last.pre),
                                   lineCount |-> getLineCount(last.pre)],
                       result |-> ResultOf(r)]
    /\ steps' = steps + 1

NextEdits ==
    \/ \E value \in Values, offset \in 0..Len(ref) :
           /\ steps < MaxPreSteps
           /\ last.op \in {"new", "insert", "delete"}
           /\ Insert(value, offset)
    \/ \E offset \in 0..Len(ref), cnt \in 0..Len(ref) :
           /\ steps < MaxPreSteps
           /\ last.op \in {"new", "insert", "delete"}
           /\ offset + cnt <= Len(ref)
           /\ Delete(offset, cnt)
    \/ /\ last.op \in {"new", "insert", "delete"}
       /\ Len(ref) <= MaxEditDocLen
       /\ \E n \in 0..MaxBatch : \E ops \in [1..n -> RawOps(ref)] :
              ApplyEdits(Identified(ops))
    \/ ApplyReverse

SpecEdits == InitEdits /\ [][NextEdits]_vars

----------------------------------------------------------------------------
(* Calls outside the contract: a buffer built by at most MaxMisusePreSteps insert /
   delete calls receives one call whose offset or range lies outside the document.
   The code has no check of its own; what a caller sees is either the TypeError of
   a property read on the null that nodeAt / nodeAt2 returned, or a normal return. *)

MaxMisusePreSteps == 2    \* insert / delete calls before the call outside the contract
MaxBeyond == 2            \* how far an offset may lie beyond the end of the document

\* insert: `let { node, remainder } = this.nodeAt(offset)` throws when nodeAt returns null
insertThrows(t, offset) == t.root # SENTINEL /\ nodeAt(t, offset) = Null

\* delete: `startPosition.node`, `endPosition.node` throw when nodeAt returned null
deleteThrows(t, offset, cnt) ==
    t.root # SENTINEL /\ (nodeAt(t, offset) = Null \/ nodeAt(t, offset + cnt) = Null)

\* insert(value, offset) as the caller sees it
insertOutcome(t, value, offset) ==
    IF insertThrows(t, offset) THEN [threw |-> TRUE, t |-> t]
    ELSE [threw |-> FALSE, t |-> insert(t, value, offset)]

\* delete(offset, cnt) as the caller sees it
deleteOutcome(t, offset, cnt) ==
    IF deleteThrows(t, offset, cnt) THEN [threw |-> TRUE, t |-> t]
    ELSE [threw |-> FALSE, t |-> delete(t, offset, cnt)]

\* this._mightContainRTL = mightContainRTL; this._mightContainNonBasicASCII = ...
setFlags(t, v) ==
    [t EXCEPT !.mightContainRTL = v.mightContainRTL,
              !.mightContainNonBasicASCII = v.mightContainNonBasicASCII]

\* the insert of the one operation of a batch; t2 is the buffer after its delete
applyOneInsert(t, rawOperations, op, t2) ==
    IF textOfOp(t2, op) # <<>> /\ insertThrows(t2, op.rangeOffset)
    THEN [threw |-> TRUE, t |-> t2]
    ELSE _applyEdits(t, rawOperations, TRUE)

\* _doApplyEdits of a batch of one operation; t1 is the buffer with the flags written
applyOneWrites(t, rawOperations, op, t1) ==
    IF isNoOp(op) THEN _applyEdits(t, rawOperations, TRUE)
    ELSE IF deleteThrows(t1, op.rangeOffset, op.rangeLength) THEN [threw |-> TRUE, t |-> t1]
    ELSE applyOneInsert(t, rawOperations, op, delete(t1, op.rangeOffset, op.rangeLength))

\* _applyEdits of a batch of one operation; v is what the validation loop returned. The
\* reverse operation is read first, then the flags are written, then _doApplyEdits runs.
applyOneValidated(t, rawOperations, v) ==
    IF getValueInRangeThrows(t, v.operations[1].range) THEN [threw |-> TRUE, t |-> t]
    ELSE applyOneWrites(t, rawOperations, v.operations[1], setFlags(t, v))

\* _applyEdits(rawOperations, true) of a batch of one operation as the caller sees it
applyOneOutcome(t, rawOperations) ==
    applyOneValidated(
        t, rawOperations,
        validateFrom(t, rawOperations, 1, t.mightContainRTL, t.mightContainNonBasicASCII))

\* the positions just outside a document: one column beyond the last column of a line,
\* and the first column of the line after the last line
OutsidePositions(s) ==
    LET ls == LinesOf(s)
    IN  {Position(l, Len(ls[l]) + 2) : l \in 1..Len(ls)} \cup {Position(Len(ls) + 1, 1)}

\* the ranges with start <= end of which at least one end lies outside the document
OutsideRanges(s) ==
    {Range(pq[1].lineNumber, pq[1].column, pq[2].lineNumber, pq[2].column) :
        pq \in {xy \in (ValidPositions(s) \cup OutsidePositions(s))
                       \X (ValidPositions(s) \cup OutsidePositions(s)) :
                    /\ ~isBefore(xy[2], xy[1])
                    /\ (xy[1] \in OutsidePositions(s) \/ xy[2] \in OutsidePositions(s))}}

Built == {"new", "insert", "delete"}

InsertBeyond(value, offset) ==
    /\ \E r \in {insertOutcome(This, value, offset)} :
           /\ \E t \in {Collect(r.t)} : Becomes(t)
           /\ last' = [op |-> "insertBeyond", value |-> value, offset |-> offset,
                       pre |-> This, threw |-> r.threw]
    /\ ref' = ref
    /\ steps' = steps + 1

DeleteBeyond(offset, cnt) ==
    /\ \E r \in {deleteOutcome(This, offset, cnt)} :
           /\ \E t \in {Collect(r.t)} : Becomes(t)
           /\ last' = [op |-> "deleteBeyond", offset |-> offset, cnt |-> cnt,
                       pre |-> This, threw |-> r.threw]
    /\ ref' = ref
    /\ steps' = steps + 1

ApplyEditsOutside(rawOperations) ==
    /\ \E r \in {applyOneOutcome(This, rawOperations)} :
           /\ \E t \in {Collect(r.t)} : Becomes(t)
           /\ last' = [op |-> "applyEditsOutside", rawOperations |-> rawOperations,
                       pre |-> This, threw |-> r.threw]
    /\ ref' = ref
    /\ steps' = steps + 1

NextMisuse ==
    \/ \E value \in Values, offset \in 0..Len(ref) :
           /\ steps < MaxMisusePreSteps
           /\ last.op \in Built
           /\ Insert(value, offset)
    \/ \E offset \in 0..Len(ref), cnt \in 0..Len(ref) :
           /\ steps < MaxMisusePreSteps
           /\ last.op \in Built
           /\ offset + cnt <= Len(ref)
           /\ Delete(offset, cnt)
    \/ \E value \in Values, offset \in (Len(ref) + 1)..(Len(ref) + MaxBeyond) :
           /\ last.op \in Built
           /\ InsertBeyond(value, offset)
    \/ \E offset \in 0..(Len(ref) + MaxBeyond), cnt \in 0..(Len(ref) + MaxBeyond) :
           /\ last.op \in Built
           /\ offset + cnt > Len(ref)
           /\ offset + cnt <= Len(ref) + MaxBeyond
           /\ DeleteBeyond(offset, cnt)
    \/ \E range \in OutsideRanges(ref), text \in EditTexts :
           /\ last.op \in Built
           /\ Len(ref) <= MaxEditDocLen
           /\ ApplyEditsOutside(Identified(<<[range |-> range, text |-> text]>>))

SpecMisuse == Init /\ [][NextMisuse]_vars

(***************************************************************************)
(* Reads after a few edits                                                 *)
(***************************************************************************)
MaxReadPreSteps == 2

ReadOps ==
    {"nodeAt", "nodeAt2", "getLineContent", "getValueInRange", "getLineCount",
     "getOffsetAt", "getPositionAt", "offsetOfNode"}

Returned(r, call) ==
    /\ Becomes(r.t)
    /\ last' = [op |-> call.op, args |-> call.args, pre |-> This, threw |-> r.threw,
                value |-> r.value]
    /\ ref' = ref
    /\ steps' = steps + 1

NextReads ==
    \/ \E value \in Values, offset \in 0..Len(ref) :
           /\ steps < MaxReadPreSteps
           /\ last.op \in Built
           /\ Insert(value, offset)
    \/ \E offset \in 0..Len(ref), cnt \in 0..Len(ref) :
           /\ steps < MaxReadPreSteps
           /\ last.op \in Built
           /\ offset + cnt <= Len(ref)
           /\ Delete(offset, cnt)
    \/ \E offset \in 0..Len(ref) :
           /\ last.op \in Built
           /\ root # SENTINEL
           /\ Returned(nodeAtCall(This, offset), [op |-> "nodeAt", args |-> <<offset>>])
    \/ \E position \in ValidPositions(ref) :
           /\ last.op \in Built
           /\ root # SENTINEL
           /\ Returned(nodeAt2Call(This, position), [op |-> "nodeAt2", args |-> <<position>>])
    \/ \E lineNumber \in 1..Len(LinesOf(ref)) :
           /\ last.op \in Built
           /\ Returned(getLineContentCall(This, lineNumber),
                       [op |-> "getLineContent", args |-> <<lineNumber>>])
    \/ \E range \in ValidRanges(ref) :
           /\ last.op \in Built
           /\ Returned(getValueInRangeCall(This, range),
                       [op |-> "getValueInRange", args |-> <<range>>])
    \/ /\ last.op \in Built
       /\ Returned(getLineCountCall(This), [op |-> "getLineCount", args |-> <<>>])
    \/ \E position \in ValidPositions(ref) :
           /\ last.op \in Built
           /\ Returned(getOffsetAtCall(This, position),
                       [op |-> "getOffsetAt", args |-> <<position>>])
    \/ \E offset \in 0..Len(ref) :
           /\ last.op \in Built
           /\ Returned(getPositionAtCall(This, offset),
                       [op |-> "getPositionAt", args |-> <<offset>>])
    \/ \E n \in Reachable(This, root) :
           /\ last.op \in Built
           /\ Returned(offsetOfNodeCall(This, n), [op |-> "offsetOfNode", args |-> <<n>>])

SpecReads == Init /\ [][NextReads]_vars

(***************************************************************************)
(* The indentation guesser (indentation.ts), on a string-array target      *)
(***************************************************************************)

\* A string array is kept as its first lines (`lines`) and the number of empty lines
\* that follow them (`padding`).
\* IndentationGuesserStringArrayTarget.getLineCount(): this._lines.length
targetLineCount(target) == Len(target.lines) + target.padding

\* IndentationGuesserStringArrayTarget.getLineContent(lineNumber): this._lines[lineNumber - 1]
targetLineContent(target, lineNumber) ==
    IF lineNumber <= Len(target.lines) THEN target.lines[lineNumber] ELSE <<>>

Space == " "
Tab == "\t"

MAX_ALLOWED_TAB_SIZE_GUESS == 8
MaxLinesExamined == 10000
ALLOWED_TAB_SIZE_GUESSES == <<2, 4, 6, 8>>

Abs(n) == IF n < 0 THEN -n ELSE n

\* spacesDiff, first loop: the number of leading characters a and b have in common
RECURSIVE spacesDiffCommon(_, _, _, _, _)
spacesDiffCommon(a, aLength, b, bLength, i) ==
    IF i < aLength /\ i < bLength /\ a[i + 1] = b[i + 1]
    THEN spacesDiffCommon(a, aLength, b, bLength, i + 1)
    ELSE i

\* spacesDiff, second and third loop: the spaces among s[i] .. s[length - 1] (0-based);
\* every other character is counted as a tab
spacesFrom(s, i, length) == Cardinality({j \in (i + 1)..length : s[j] = Space})
tabsFrom(s, i, length) == Cardinality({j \in (i + 1)..length : s[j] # Space})

\* spacesDiff that divides without asking whether the division is exact (a fault C26
\* must detect)
spacesDiffOfCountsRoundsDown(aSpacesCnt, aTabsCount, bSpacesCnt, bTabsCount) ==
    IF aSpacesCnt > 0 /\ aTabsCount > 0 THEN 0
    ELSE IF bSpacesCnt > 0 /\ bTabsCount > 0 THEN 0
    ELSE IF Abs(aTabsCount - bTabsCount) = 0 THEN Abs(aSpacesCnt - bSpacesCnt)
    ELSE Abs(aSpacesCnt - bSpacesCnt) \div Abs(aTabsCount - bTabsCount)

\* spacesDiff from the mixed-indentation tests on
spacesDiffOfCounts(aSpacesCnt, aTabsCount, bSpacesCnt, bTabsCount) ==
    IF aSpacesCnt > 0 /\ aTabsCount > 0 THEN 0
    ELSE IF bSpacesCnt > 0 /\ bTabsCount > 0 THEN 0
    ELSE IF Abs(aTabsCount - bTabsCount) = 0 THEN Abs(aSpacesCnt - bSpacesCnt)
    ELSE IF Abs(aSpacesCnt - bSpacesCnt) % Abs(aTabsCount - bTabsCount) = 0
         THEN Abs(aSpacesCnt - bSpacesCnt) \div Abs(aTabsCount - bTabsCount)
    ELSE 0

spacesDiffAfter(a, aLength, b, bLength, i) ==
    spacesDiffOfCounts(spacesFrom(a, i, aLength), tabsFrom(a, i, aLength),
                       spacesFrom(b, i, bLength), tabsFrom(b, i, bLength))

spacesDiff(a, aLength, b, bLength) ==
    spacesDiffAfter(a, aLength, b, bLength, spacesDiffCommon(a, aLength, b, bLength, 0))

\* guessIndentation, the scan of one line up to its first non-whitespace character
RECURSIVE scanIndentation(_, _, _, _)
scanIndentation(currentLineText, j, currentLineSpacesCount, currentLineTabsCount) ==
    IF j >= Len(currentLineText)
    THEN [currentLineHasContent |-> FALSE, currentLineIndentation |-> 0,
          currentLineSpacesCount |-> currentLineSpacesCount,
          currentLineTabsCount |-> currentLineTabsCount]
    ELSE IF currentLineText[j + 1] = Tab
         THEN scanIndentation(currentLineText, j + 1, currentLineSpacesCount,
                              currentLineTabsCount + 1)
    ELSE IF currentLineText[j + 1] = Space
         THEN scanIndentation(currentLineText, j + 1, currentLineSpacesCount + 1,
                              currentLineTabsCount)
    ELSE [currentLineHasContent |-> TRUE, currentLineIndentation |-> j,
          currentLineSpacesCount |-> currentLineSpacesCount,
          currentLineTabsCount |-> currentLineTabsCount]

\* spacesDiffCount[d]++ if d <= MAX_ALLOWED_TAB_SIZE_GUESS
countSpacesDiff(spacesDiffCount, d) ==
    IF d <= MAX_ALLOWED_TAB_SIZE_GUESS
    THEN [spacesDiffCount EXCEPT ![d] = @ + 1]
    ELSE spacesDiffCount

\* guessIndentation that examines every line of its target, however many there are (a
\* fault C34 must detect)
guessIndentationStartUncapped(target, defaultTabSize, defaultInsertSpaces) ==
    [op |-> "guessIndentation", target |-> target,
     defaultTabSize |-> defaultTabSize, defaultInsertSpaces |-> defaultInsertSpaces,
     linesCount |-> targetLineCount(target),
     lineNumber |-> 1, requested |-> 0, result |-> Null,
     linesIndentedWithTabsCount |-> 0, linesIndentedWithSpacesCount |-> 0,
     previousLineText |-> <<>>, previousLineIndentation |-> 0,
     spacesDiffCount |-> [d \in 0..MAX_ALLOWED_TAB_SIZE_GUESS |-> 0]]

\* guessIndentation before its loop
guessIndentationStart(target, defaultTabSize, defaultInsertSpaces) ==
    [op |-> "guessIndentation", target |-> target,
     defaultTabSize |-> defaultTabSize, defaultInsertSpaces |-> defaultInsertSpaces,
     linesCount |-> Min(targetLineCount(target), MaxLinesExamined),
     lineNumber |-> 1, requested |-> 0, result |-> Null,
     linesIndentedWithTabsCount |-> 0, linesIndentedWithSpacesCount |-> 0,
     previousLineText |-> <<>>, previousLineIndentation |-> 0,
     spacesDiffCount |-> [d \in 0..MAX_ALLOWED_TAB_SIZE_GUESS |-> 0]]

\* guessIndentation, one turn of its loop for a line that has content
guessIndentationContentLine(g, currentLineText, scan) ==
    [g EXCEPT !.lineNumber = @ + 1,
              !.requested = g.lineNumber,
              !.linesIndentedWithTabsCount =
                  IF scan.currentLineTabsCount > 0 THEN @ + 1 ELSE @,
              !.linesIndentedWithSpacesCount =
                  IF scan.currentLineTabsCount = 0 /\ scan.currentLineSpacesCount > 1
                  THEN @ + 1 ELSE @,
              !.spacesDiffCount =
                  countSpacesDiff(@, spacesDiff(g.previousLineText, g.previousLineIndentation,
                                                currentLineText, scan.currentLineIndentation)),
              !.previousLineText = currentLineText,
              !.previousLineIndentation = scan.currentLineIndentation]

\* guessIndentation, one turn of its loop: the line target.getLineContent(lineNumber)
guessIndentationLine(g, currentLineText, scan) ==
    IF ~scan.currentLineHasContent
    THEN [g EXCEPT !.lineNumber = @ + 1, !.requested = g.lineNumber]
    ELSE guessIndentationContentLine(g, currentLineText, scan)

\* the forEach that lets a later guess with an equal score win (a fault C24 must detect)
RECURSIVE guessTabSizeLastWins(_, _, _, _)
guessTabSizeLastWins(spacesDiffCount, k, tabSize, tabSizeScore) ==
    IF k > Len(ALLOWED_TAB_SIZE_GUESSES) THEN tabSize
    ELSE IF 10 * spacesDiffCount[ALLOWED_TAB_SIZE_GUESSES[k]] >= tabSizeScore
            /\ spacesDiffCount[ALLOWED_TAB_SIZE_GUESSES[k]] > 0
         THEN guessTabSizeLastWins(spacesDiffCount, k + 1, ALLOWED_TAB_SIZE_GUESSES[k],
                                   10 * spacesDiffCount[ALLOWED_TAB_SIZE_GUESSES[k]])
    ELSE guessTabSizeLastWins(spacesDiffCount, k + 1, tabSize, tabSizeScore)

\* the forEach over ALLOWED_TAB_SIZE_GUESSES from its k-th element on; scores are kept in
\* tenths, so that 0.1 * linesCount is linesCount
RECURSIVE guessTabSizeFrom(_, _, _, _)
guessTabSizeFrom(spacesDiffCount, k, tabSize, tabSizeScore) ==
    IF k > Len(ALLOWED_TAB_SIZE_GUESSES) THEN tabSize
    ELSE IF 10 * spacesDiffCount[ALLOWED_TAB_SIZE_GUESSES[k]] > tabSizeScore
         THEN guessTabSizeFrom(spacesDiffCount, k + 1, ALLOWED_TAB_SIZE_GUESSES[k],
                               10 * spacesDiffCount[ALLOWED_TAB_SIZE_GUESSES[k]])
    ELSE guessTabSizeFrom(spacesDiffCount, k + 1, tabSize, tabSizeScore)

guessTabSize(spacesDiffCount, defaultTabSize, insertSpaces, linesCount) ==
    guessTabSizeFrom(spacesDiffCount, 1, defaultTabSize,
                     IF insertSpaces THEN 0 ELSE linesCount)

guessInsertSpaces(g) ==
    IF g.linesIndentedWithTabsCount # g.linesIndentedWithSpacesCount
    THEN g.linesIndentedWithTabsCount < g.linesIndentedWithSpacesCount
    ELSE g.defaultInsertSpaces

\* guessIndentation after its loop; spacesDiffCount has the last line taken into account
guessIndentationReturn(g, spacesDiffCount) ==
    [g EXCEPT !.op = "guessed",
              !.spacesDiffCount = spacesDiffCount,
              !.result = [insertSpaces |-> guessInsertSpaces(g),
                          tabSize |-> guessTabSize(spacesDiffCount, g.defaultTabSize,
                                                   guessInsertSpaces(g), g.linesCount)]]

\* the lines the guesser is run on
Spaces(n) == [i \in 1..n |-> Space]
Indentations ==
    {Spaces(n) : n \in {0, 1, 2, 3, 4, 6, 8}}
        \cup {<<Tab>>, <<Tab, Tab>>, <<Tab, Space, Space>>, <<Space, Space, Tab>>}
GuessLines == {i \o <<"a">> : i \in Indentations} \cup {<<>>, <<Space, Space>>, <<Tab>>}
MaxGuessLines == 3
Paddings == {0, 7, 8}         \* empty lines after the lines with text
ExampleTarget ==
    [lines |-> <<Spaces(2) \o <<"a">>, Spaces(2) \o <<"b">>, Spaces(4) \o <<"c">> >>,
     padding |-> 1]

\* a target of one line more than the guesser examines
LongTarget == [lines |-> << <<Tab, "a">> >>, padding |-> MaxLinesExamined]

GuessTargets ==
    {[lines |-> lines, padding |-> padding] :
        lines \in UNION {[1..n -> GuessLines] : n \in 0..MaxGuessLines},
        padding \in Paddings}

InitIndent ==
    /\ Constructed(NewTextBuffer(<<>>, <<LF>>, FALSE, TRUE))
    /\ ref = <<>>
    /\ steps = 0
    /\ \/ \E target \in GuessTargets, defaultInsertSpaces \in BOOLEAN :
              last = guessIndentationStart(target, 3, defaultInsertSpaces)
       \/ last = guessIndentationStart(ExampleTarget, 4, TRUE)
       \/ last = guessIndentationStart(LongTarget, 4, TRUE)

GuessLine ==
    /\ last.op = "guessIndentation"
    /\ last.lineNumber <= last.linesCount
    /\ last' = guessIndentationLine(
                   last, targetLineContent(last.target, last.lineNumber),
                   scanIndentation(targetLineContent(last.target, last.lineNumber), 0, 0, 0))
    /\ UNCHANGED <<root, node, originalBuffer, changeBuffer, EOL, mightContainRTL,
                   mightContainNonBasicASCII, ref, steps>>

GuessReturn ==
    /\ last.op = "guessIndentation"
    /\ last.lineNumber > last.linesCount
    /\ last' = guessIndentationReturn(
                   last,
                   countSpacesDiff(last.spacesDiffCount,
                                   spacesDiff(last.previousLineText,
                                              last.previousLineIndentation, <<>>, 0)))
    /\ UNCHANGED <<root, node, originalBuffer, changeBuffer, EOL, mightContainRTL,
                   mightContainNonBasicASCII, ref, steps>>

NextIndent == GuessLine \/ GuessReturn

SpecIndent == InitIndent /\ [][NextIndent]_vars

----------------------------------------------------------------------------
(* The rotations as a state machine: a buffer built by at most MaxRotatePreSteps insert /
   delete calls has one of its nodes rotated, at most MaxRotations times in a row.
   leftRotate(tree, x) reads x.right and rightRotate(tree, y) reads y.left as the node
   to lift; fixInsert and rbDelete call them on nodes that have that child. *)
MaxRotatePreSteps == 3
MaxRotations == 2

Rotations == {"leftRotate", "rightRotate"}

LeftRotate(x) ==
    /\ last.op \in Built \cup Rotations
    /\ steps < MaxRotatePreSteps + MaxRotations
    /\ Right(This, x) # SENTINEL
    /\ Becomes(leftRotate(This, x))
    /\ ref' = ref
    /\ last' = [op |-> "leftRotate", x |-> x, y |-> Right(This, x), pre |-> This,
                rotations |-> IF last.op \in Rotations THEN last.rotations + 1 ELSE 1]
    /\ steps' = steps + 1

RightRotate(y) ==
    /\ last.op \in Built \cup Rotations
    /\ steps < MaxRotatePreSteps + MaxRotations
    /\ Left(This, y) # SENTINEL
    /\ Becomes(rightRotate(This, y))
    /\ ref' = ref
    /\ last' = [op |-> "rightRotate", x |-> Left(This, y), y |-> y, pre |-> This,
                rotations |-> IF last.op \in Rotations THEN last.rotations + 1 ELSE 1]
    /\ steps' = steps + 1

NextRotate ==
    \/ \E value \in Values, offset \in 0..Len(ref) :
           /\ steps < MaxRotatePreSteps
           /\ last.op \in Built
           /\ Insert(value, offset)
    \/ \E offset \in 0..Len(ref), cnt \in 0..Len(ref) :
           /\ steps < MaxRotatePreSteps
           /\ last.op \in Built
           /\ offset + cnt <= Len(ref)
           /\ Delete(offset, cnt)
    \/ \E x \in Reachable(This, root) :
           (last.op \in Rotations => last.rotations < MaxRotations) /\ LeftRotate(x)
    \/ \E y \in Reachable(This, root) :
           (last.op \in Rotations => last.rotations < MaxRotations) /\ RightRotate(y)

SpecRotate == Init /\ [][NextRotate]_vars

----------------------------------------------------------------------------
(* The loops as a state machine, one turn per step. A buffer built by at most
   MaxLoopPreSteps insert / delete calls runs one loop of the code to its end: the
   successor traversal (node = node.next() until SENTINEL), the upward walk
   (x = x.parent until tree.root), the loop of fixInsert in an insert call that links
   one new node, or the RB-DELETE-FIXUP loop in a delete call that removes one whole
   node. On a buffer constructed with empty text, at most MaxLoopRuns such insert and
   delete calls follow one another, which grows trees in which a fix-up loop takes more
   than one turn. The state counts the turns that the loop has taken and keeps the
   nodes that x has stood at. *)
MaxLoopPreSteps == 3
MaxLoopRuns == 8

LoopValues == {<<LF>>}

\* a call with a fix-up loop can start: after a public call, or on the buffer that was
\* constructed empty after the call before it has returned
LoopCanStart ==
    \/ last.op \in Built
    \/ /\ last.op = "exit"
       /\ steps = 0
       /\ originalBuffer = <<>>
       /\ last.runs < MaxLoopRuns

RunsSoFar == IF last.op \in Built THEN 0 ELSE last.runs

BufferUnchanged ==
    UNCHANGED <<root, node, originalBuffer, changeBuffer, EOL, mightContainRTL,
                mightContainNonBasicASCII>>

Looping(loop) == last.op = "loop" /\ last.loop = loop

Turned(x, visited) ==
    last' = [last EXCEPT !.x = x, !.visited = visited, !.turns = last.turns + 1]

\* for (node = n; node !== SENTINEL; node = node.next())
StartTraversal(n) ==
    /\ last.op \in Built
    /\ BufferUnchanged
    /\ last' = [op |-> "loop", loop |-> "next", x |-> n, visited |-> {}, turns |-> 0,
                runs |-> 0]
    /\ UNCHANGED <<ref, steps>>

\* a traversal step that takes the parent for the successor of a node without right
\* child (a fault C32 must detect)
TraversalStepWithoutClimb ==
    /\ Looping("next")
    /\ last.x # SENTINEL
    /\ BufferUnchanged
    /\ Turned(IF Right(This, last.x) # SENTINEL THEN leftest(This, Right(This, last.x))
              ELSE Parent(This, last.x),
              last.visited \cup {last.x})
    /\ UNCHANGED <<ref, steps>>

TraversalStep ==
    /\ Looping("next")
    /\ last.x # SENTINEL
    /\ BufferUnchanged
    /\ Turned(next(This, last.x), last.visited \cup {last.x})
    /\ UNCHANGED <<ref, steps>>

\* while (x !== tree.root) x = x.parent, from a node of the tree, or from the x of
\* rbDelete once y is unlinked (the walks of recomputeMetadata and updateMetadata there)
StartClimb(n) ==
    /\ \/ last.op \in Built /\ n # SENTINEL
       \/ Looping("rbDeleteFixup") /\ last.turns = 0 /\ n = last.x
    /\ BufferUnchanged
    /\ last' = [op |-> "loop", loop |-> "parent", x |-> n, visited |-> {}, turns |-> 0,
                runs |-> RunsSoFar]
    /\ UNCHANGED <<ref, steps>>

ClimbStep ==
    /\ Looping("parent")
    /\ last.x # root
    /\ BufferUnchanged
    /\ Turned(Parent(This, last.x), last.visited \cup {last.x})
    /\ UNCHANGED <<ref, steps>>

\* insert(value, offset) in the branches that link one new node, to the left or to the
\* right of the node found at offset or into the empty tree, up to the loop of fixInsert
StartRbInsert(value, offset) ==
    /\ LoopCanStart
    /\ \E n \in {IF root = SENTINEL THEN NullNode ELSE nodeAt(This, offset).node} :
       \E t \in {[This EXCEPT !.changeBuffer = @ \o value]} :
       \E z \in {NewId(t)} :
       \E p \in {Piece(FALSE, Len(changeBuffer), Len(value),
                       udpateLFCount(value).lineFeedCount,
                       udpateLFCount(value).lineLengths)} :
           /\ root # SENTINEL =>
                  \* neither the branch that appends to the node nor the one that splits it
                  /\ ~(/\ ~PieceOf(This, n).isOriginalBuffer
                       /\ PieceOf(This, n).offset + PieceOf(This, n).length
                              = Len(changeBuffer)
                       /\ offsetOfNode(This, n) + PieceOf(This, n).length = offset)
                  /\ \/ offsetOfNode(This, n) = offset
                     \/ offsetOfNode(This, n) + PieceOf(This, n).length <= offset
           /\ Becomes(recomputeMetadata(IF root = SENTINEL \/ offsetOfNode(This, n) = offset
                                        THEN linkLeft(AllocRed(t, z, p), n, z)
                                        ELSE linkRight(AllocRed(t, z, p), n, z),
                                        z))
           /\ last' = [op |-> "loop", loop |-> "fixInsert", x |-> z, visited |-> {},
                       turns |-> 0, runs |-> RunsSoFar + 1]
    /\ ref' = SubSeq(ref, 1, offset) \o value \o SubSeq(ref, offset + 1, Len(ref))
    /\ steps' = steps

FixInsertTurn ==
    /\ Looping("fixInsert")
    /\ fixInsertGoesOn(This, last.x)
    /\ Becomes(fixInsertTurn(This, last.x).t)
    /\ Turned(fixInsertTurn(This, last.x).x, last.visited \cup {last.x})
    /\ UNCHANGED <<ref, steps>>

FixInsertExit ==
    /\ Looping("fixInsert")
    /\ ~fixInsertGoesOn(This, last.x)
    /\ Becomes(blackenRoot(This))
    /\ last' = [last EXCEPT !.op = "exit"]
    /\ UNCHANGED <<ref, steps>>

\* delete(offset, cnt) in the branch that removes the one whole node z found at offset,
\* up to the RB-DELETE-FIXUP loop of rbDelete, when y is neither the root nor red
StartRbDelete(offset, cnt) ==
    /\ LoopCanStart
    /\ root # SENTINEL
    /\ \E z \in {nodeAt(This, offset).node} :
       \E y \in {rbDeleteY(This, z)} :
       \E x \in {rbDeleteX(This, z, y)} :
           /\ nodeAt(This, offset + cnt).node = z
           /\ offsetOfNode(This, z) = offset
           /\ cnt = PieceOf(This, z).length
           /\ y # root
           /\ getNodeColor(This, y) = Black
           /\ Becomes(rbDeleteUnlinked(This, z, y, x))
           /\ last' = [op |-> "loop", loop |-> "rbDeleteFixup", x |-> x, visited |-> {},
                       turns |-> 0, runs |-> RunsSoFar + 1]
    /\ ref' = SubSeq(ref, 1, offset) \o SubSeq(ref, offset + cnt + 1, Len(ref))
    /\ steps' = steps

RbDeleteFixupTurn ==
    /\ Looping("rbDeleteFixup")
    /\ rbDeleteFixupGoesOn(This, last.x)
    /\ Becomes(rbDeleteFixupTurn(This, last.x).t)
    /\ Turned(rbDeleteFixupTurn(This, last.x).x, last.visited \cup {last.x})
    /\ UNCHANGED <<ref, steps>>

RbDeleteFixupExit ==
    /\ Looping("rbDeleteFixup")
    /\ ~rbDeleteFixupGoesOn(This, last.x)
    /\ Becomes(rbDeleteFixupEnd(This, last.x))
    /\ last' = [last EXCEPT !.op = "exit"]
    /\ UNCHANGED <<ref, steps>>

LoopTurns ==
    \/ TraversalStep
    \/ ClimbStep
    \/ FixInsertTurn
    \/ FixInsertExit
    \/ RbDeleteFixupTurn
    \/ RbDeleteFixupExit

NextLoops ==
    \/ \E value \in Values, offset \in 0..Len(ref) :
           /\ steps < MaxLoopPreSteps
           /\ last.op \in Built
           /\ Insert(value, offset)
    \/ \E offset \in 0..Len(ref), cnt \in 0..Len(ref) :
           /\ steps < MaxLoopPreSteps
           /\ last.op \in Built
           /\ offset + cnt <= Len(ref)
           /\ Delete(offset, cnt)
    \/ \E n \in Reachable(This, root) : StartTraversal(n)
    \/ \E n \in Reachable(This, root) \cup {SENTINEL} : StartClimb(n)
    \/ \E value \in LoopValues, offset \in 0..Len(ref) : StartRbInsert(value, offset)
    \/ \E offset \in 0..Len(ref), cnt \in 1..Len(ref) :
           offset + cnt <= Len(ref) /\ StartRbDelete(offset, cnt)
    \/ LoopTurns

\* a loop is running: its test holds (a fix-up loop, whose exit changes the tree, has not
\* yet left). These are the states in which a turn can be taken.
LoopRunning ==
    /\ last.op = "loop"
    /\ last.loop = "next" => last.x # SENTINEL
    /\ last.loop = "parent" => last.x # root

\* The program is sequential: a loop that has started takes its turns one after the
\* other. This is weak fairness of LoopTurns, whose enabling condition is LoopRunning.
LoopTurnsFair == []<>(~LoopRunning) \/ []<><<LoopTurns>>_vars

SpecLoops == Init /\ [][NextLoops]_vars /\ LoopTurnsFair

----------------------------------------------------------------------------
(* Reference semantics on plain strings, used to state the properties *)

\* the nodes linked in the tree
Nodes == Reachable(This, root)

RECURSIVE TrueSize(_, _)
TrueSize(t, n) ==
    IF n = SENTINEL THEN 0
    ELSE TrueSize(t, Left(t, n)) + PieceOf(t, n).length + TrueSize(t, Right(t, n))

RECURSIVE TrueLF(_, _)
TrueLF(t, n) ==
    IF n = SENTINEL THEN 0
    ELSE TrueLF(t, Left(t, n)) + PieceOf(t, n).lineFeedCnt + TrueLF(t, Right(t, n))

----------------------------------------------------------------------------
(* Claims *)

\* C1: after any sequence of insert / delete calls with offsets inside the document,
\* getLinesContent() equals the reference string that received the same edits.
C1_ContentEqualsReference == getLinesContent(This) = ref

C1_Witness ==
    /\ last.op = "delete"
    /\ last.cnt > 0
    /\ Cardinality(Nodes) >= 3
    /\ changeBuffer # <<>>

\* C2: after every insert and delete, size_left(n) and lf_left(n) of every node are the
\* sums of piece.length and piece.lineFeedCnt over the left subtree of n.
C2_MetadataExact ==
    \A n \in Nodes :
        /\ node[n].size_left = TrueSize(This, node[n].left)
        /\ node[n].lf_left = TrueLF(This, node[n].left)

\* a delete that spanned several nodes and unlinked at least two of them
C2_Witness ==
    /\ last.op = "delete"
    /\ Cardinality(Reachable(last.pre, last.pre.root)) >= Cardinality(Nodes) + 2
    /\ Cardinality(Nodes) >= 2
    /\ \E n \in Nodes : node[n].lf_left > 0

\* the number of black nodes on every path from n down to the sentinel, the sentinel
\* counted; -1 when two paths differ
RECURSIVE BlackHeight(_, _)
BlackHeight(t, n) ==
    IF n = SENTINEL THEN 1
    ELSE LET l == BlackHeight(t, Left(t, n))
             r == BlackHeight(t, Right(t, n))
         IN  IF l = -1 \/ r = -1 \/ l # r THEN -1
             ELSE l + (IF getNodeColor(t, n) = Black THEN 1 ELSE 0)

\* C3: after construction and after every insert, delete and _applyEdits the root is
\* black, no red node has a red child, and every path from the root to the sentinel
\* holds the same number of black nodes.
C3_RedBlackInvariants ==
    /\ getNodeColor(This, root) = Black
    /\ \A n \in Nodes :
           getNodeColor(This, n) = Red =>
               /\ getNodeColor(This, Left(This, n)) = Black
               /\ getNodeColor(This, Right(This, n)) = Black
    /\ BlackHeight(This, root) # -1

\* a batch of two executed operations that left a tree of five or more nodes
C3_Witness ==
    /\ last.op = "applyEdits"
    /\ ~last.result.threw
    /\ Len(last.result.contentChanges) = 2
    /\ Cardinality(Nodes) >= 5
    /\ \E n \in Nodes : getNodeColor(This, n) = Red

\* C4: after every insert and delete, every linked piece has length = sum(lineStarts)
\* and lineFeedCnt + 1 = number of entries of lineStarts.
C4_PieceLineStarts ==
    \A n \in Nodes :
        /\ node[n].piece.length = SumSeq(node[n].piece.lineStarts)
        /\ node[n].piece.lineFeedCnt + 1 = Len(node[n].piece.lineStarts)

C4_Witness ==
    /\ last.op = "delete"
    /\ last.cnt > 0
    /\ \E n \in Nodes : node[n].piece.lineFeedCnt > 0 /\ ~node[n].piece.isOriginalBuffer
    /\ Cardinality(Reachable(last.pre, last.pre.root)) > Cardinality(Nodes)

\* C5: getLineCount() is 1 + the number of '\n' in the logical content.
C5_LineCount == getLineCount(This) = 1 + CountLF(getLinesContent(This))

C5_Witness ==
    /\ steps >= 3
    /\ Cardinality(Nodes) >= 3
    /\ getLineCount(This) >= 3

\* C6: getOffsetAt(getPositionAt(k)) = k for every 0 <= k <= total length, and
\* getPositionAt(getOffsetAt(line, col)) = (line, col) for every valid position,
\* in every state reachable by insert / delete (the empty buffer included).
C6_OffsetPositionRoundTrip ==
    /\ \A k \in 0..Len(ref) :
           LET pos == getPositionAt(This, k)
           IN  pos # Null /\ getOffsetAt(This, pos) = k
    /\ \A pos \in ValidPositions(ref) :
           getPositionAt(This, getOffsetAt(This, pos)) = pos

\* C7: a batch of valid, non-overlapping operations followed by the reverse operations
\* it returned restores the content and the line count the buffer had before the batch.
C7_InverseRoundTrip ==
    (last.op = "applyEdits" /\ last.undoes # Null) =>
        /\ ~last.result.threw
        /\ getLinesContent(This) = last.undoes.content
        /\ getLineCount(This) = last.undoes.lineCount

\* the validated operations of the last batch, in the order _doApplyEdits runs them
LastValidated ==
    validateFrom(last.pre, last.rawOperations, 1, last.pre.mightContainRTL,
                 last.pre.mightContainNonBasicASCII).operations

ExecutionOrder == sortOps(LastValidated, TRUE)

\* the buffer when the k-th operation of the execution order is about to run
BufferBefore(k) ==
    _doApplyEditsFrom(SubSeq(ExecutionOrder, 1, k - 1), 1,
                      [t |-> last.pre, rawContentChanges |-> <<>>,
                       contentChanges |-> <<>>]).t

\* when an operation runs, rangeOffset and rangeLength are the offsets of its range in
\* the document before the batch, and the document is still untouched up to the end of
\* that range
OffsetsStillValid ==
    \A k \in 1..Len(ExecutionOrder) :
        LET op == ExecutionOrder[k]
            before == getLinesContent(last.pre)
            endOffset == EndOffset(before, op.range)
        IN  /\ op.rangeOffset = StartOffset(before, op.range)
            /\ op.rangeOffset + op.rangeLength = endOffset
            /\ SubSeq(getLinesContent(BufferBefore(k)), 1, endOffset)
                   = SubSeq(before, 1, endOffset)

\* operations run by descending range end; equal ends by descending range start;
\* identical ranges by descending position in the batch
RunsDescending ==
    \A k \in 1..(Len(ExecutionOrder) - 1) :
        LET a == ExecutionOrder[k]
            b == ExecutionOrder[k + 1]
        IN  \/ isBefore(getEndPosition(b.range), getEndPosition(a.range))
            \/ /\ getEndPosition(b.range) = getEndPosition(a.range)
               /\ isBefore(getStartPosition(b.range), getStartPosition(a.range))
            \/ /\ b.range = a.range
               /\ b.sortIndex < a.sortIndex

\* operations run by descending range end; equal ends by descending position in the batch
RunsDescendingByIndex ==
    \A k \in 1..(Len(ExecutionOrder) - 1) :
        LET a == ExecutionOrder[k]
            b == ExecutionOrder[k + 1]
        IN  \/ isBefore(getEndPosition(b.range), getEndPosition(a.range))
            \/ /\ getEndPosition(b.range) = getEndPosition(a.range)
               /\ b.sortIndex < a.sortIndex

Threw == last.result.threw

OverlapAsStated(a, b) ==
    \/ /\ isBefore(getStartPosition(a), getEndPosition(b))
       /\ ~isBefore(getEndPosition(a), getEndPosition(b))
    \/ /\ isBefore(getStartPosition(b), getEndPosition(a))
       /\ ~isBefore(getEndPosition(b), getEndPosition(a))

OnlyNoOps ==
    \A i \in DOMAIN last.rawOperations :
        isEmpty(last.rawOperations[i].range) /\ last.rawOperations[i].text = <<>>

\* C10: a batch of no-op edits (empty range, empty text) leaves content, tree and change
\* buffer as they were and returns no raw content-change event and no content change.
C10_NoOpBatch ==
    (last.op = "applyEdits" /\ OnlyNoOps) =>
        /\ ~Threw
        /\ This = last.pre
        /\ last.result.rawContentChanges = <<>>
        /\ last.result.contentChanges = <<>>

\* two no-ops, one of them strictly inside a piece
C10_Witness ==
    /\ last.op = "applyEdits"
    /\ Len(last.rawOperations) = 2
    /\ OnlyNoOps
    /\ \E i \in 1..2 :
           LET cursor == nodeAt(This, StartOffset(ref, last.rawOperations[i].range))
           IN  /\ cursor # Null
               /\ cursor.remainder > 0
               /\ cursor.remainder < PieceOf(This, cursor.node).length

\* C11: in every state reachable by insert / delete, for every line number n with
\* 1 <= n <= getLineCount(), getLineContent(n) is the n-th line of the logical content
\* (the content split at '\n', the terminator not included), also when the line is
\* spread over several pieces.
C11_LineContent ==
    \A n \in 1..getLineCount(This) : getLineContent(This, n) = LinesOf(ref)[n]

\* C12: in every state reachable by insert / delete, for every valid range (start <= end,
\* both positions inside the document), getValueInRange(range) is the substring of the
\* logical content between the byte offsets of the start and the end of the range,
\* whether the range lies in one piece or spans several.
C12_ValueInRange ==
    \A range \in ValidRanges(ref) :
        getValueInRange(This, range)
            = SubSeq(ref, StartOffset(ref, range) + 1, EndOffset(ref, range))

\* a range that starts inside one node, runs over a whole node and ends inside a third
C12_Witness ==
    /\ root # SENTINEL
    /\ \E range \in ValidRanges(ref) :
           /\ ~isEmpty(range)
           /\ LET startPosition == nodeAt2(This, getStartPosition(range))
                  endPosition == nodeAt2(This, getEndPosition(range))
              IN  /\ startPosition.node # endPosition.node
                  /\ next(This, startPosition.node) # endPosition.node
                  /\ startPosition.remainder > 0
                  /\ endPosition.remainder < PieceOf(This, endPosition.node).length

\* C13: after any sequence of inserts of non-empty text and deletes, no node whose piece
\* has length 0 is linked in the tree.
C13_NoEmptyPiece == \A n \in Nodes : node[n].piece.length > 0

\* the piece of n is not empty and ends at byte `offset` of the document
EndsAt(t, n, offset) ==
    PieceOf(t, n).length > 0 /\ offsetOfNode(t, n) + PieceOf(t, n).length = offset

\* the piece of n references the tail of the change buffer
ReferencesTail(t, n) ==
    /\ ~PieceOf(t, n).isOriginalBuffer
    /\ PieceOf(t, n).offset + PieceOf(t, n).length = Len(t.changeBuffer)

\* C14: an insert at the end of a change-buffer piece that references the tail of the
\* change buffer extends that piece and adds no node; in particular, non-empty inserts
\* made one after the other at the end of an empty buffer leave exactly one piece.
C14_CoalescingAppends ==
    [][last'.op = "insert" =>
           \A n \in Nodes :
               (EndsAt(This, n, last'.offset) /\ ReferencesTail(This, n)) =>
                   /\ Nodes' = Nodes
                   /\ node'[n].piece.length = node[n].piece.length + Len(last'.value)]_vars

\* s is a prefix of u
IsPrefix(s, u) == Len(s) <= Len(u) /\ SubSeq(u, 1, Len(s)) = s

\* C15: the original buffer never changes and the change buffer only grows by appending:
\* the change buffer before an operation is a prefix of the change buffer after it, delete
\* modifies neither buffer, and insert(value, offset) appends exactly value.
C15_BuffersAppendOnly ==
    [][/\ originalBuffer' = originalBuffer
       /\ IsPrefix(changeBuffer, changeBuffer')
       /\ last'.op = "delete" => changeBuffer' = changeBuffer
       /\ last'.op = "insert" => changeBuffer' = changeBuffer \o last'.value]_vars

\* an insert into a tree that deletes had emptied, the change buffer already holding text
C15_Witness ==
    /\ last.op = "insert"
    /\ last.pre.root = SENTINEL
    /\ last.pre.changeBuffer # <<>>
    /\ changeBuffer # ref

\* C16: a batch that contains an operation whose range lies outside the document (line
\* number beyond the line count, or column beyond the last column of its line) fails
\* with an error and leaves the buffer as it was.
C16_InvalidRangeRejected ==
    last.op = "applyEditsOutside" => (last.threw /\ This = last.pre)

\* C17: insert(value, offset) with offset greater than the length of the document, and
\* delete(offset, cnt) with offset + cnt greater than the length of the document, fail
\* with an error and leave the tree and both buffers as they were, also when the buffer
\* is empty.
C17_InvalidOffsetRejected ==
    last.op \in {"insertBeyond", "deleteBeyond"} => (last.threw /\ This = last.pre)

\* C18: misuse of the read interface fails instead of being clamped: getLineContent(n)
\* with n < 1 or n > getLineCount(), and the position queries getOffsetAt and nodeAt2 with
\* column 0, raise an error and return no value.
C18_BoundaryMisuseFails ==
    /\ \A n \in {0, getLineCount(This) + 1} : getLineContentCall(This, n).threw
    /\ \A l \in 1..getLineCount(This) :
           /\ getOffsetAtCall(This, Position(l, 0)).threw
           /\ nodeAt2Call(This, Position(l, 0)).threw

\* C20: after every insert and delete (on every exit path of rbDelete) the sentinel is in
\* its canonical state: its parent, left and right are the sentinel itself, it is black,
\* and the parent of the root is the sentinel.
C20_SentinelCanonical ==
    /\ node[SENTINEL].parent = SENTINEL
    /\ node[SENTINEL].left = SENTINEL
    /\ node[SENTINEL].right = SENTINEL
    /\ node[SENTINEL].color = Black
    /\ node[root].parent = SENTINEL

\* a delete that unlinked a black node whose place the sentinel took, from a tree that
\* keeps three or more nodes
C20_Witness ==
    /\ last.op = "delete"
    /\ Cardinality(Reachable(last.pre, last.pre.root)) > Cardinality(Nodes)
    /\ Cardinality(Nodes) >= 3
    /\ \E z \in Reachable(last.pre, last.pre.root) \ Nodes :
           /\ last.pre.node[z].color = Black
           /\ last.pre.node[z].left = SENTINEL
           /\ last.pre.node[z].right = SENTINEL

C28_NodeAtCursor ==
    root # SENTINEL =>
        /\ \A offset \in 0..Len(ref) :
               /\ nodeAt(This, offset) # Null
               /\ nodeAt(This, offset).remainder >= 0
               /\ nodeAt(This, offset).remainder
                      <= PieceOf(This, nodeAt(This, offset).node).length
               /\ offsetOfNode(This, nodeAt(This, offset).node)
                      + nodeAt(This, offset).remainder = offset
        /\ \A offset \in (Len(ref) + 1)..(Len(ref) + MaxBeyond) : nodeAt(This, offset) = Null

\* a tree of three or more nodes in which nodeAt descends both to the left and to the right
\* of the root and lands strictly inside a piece
C28_Witness ==
    /\ Cardinality(Nodes) >= 3
    /\ \E offset \in 0..Len(ref) :
           /\ nodeAt(This, offset).node # root
           /\ offset < node[root].size_left
    /\ \E offset \in 0..Len(ref) :
           /\ nodeAt(This, offset).node # root
           /\ offset > node[root].size_left
           /\ nodeAt(This, offset).remainder > 0
           /\ nodeAt(This, offset).remainder < PieceOf(This, nodeAt(This, offset).node).length

\* C29: for every valid position nodeAt2 returns a cursor with
\* offsetOfNode(node) + remainder = getOffsetAt(position), also when the line spans
\* several pieces and the successor chase has to pass more than one of them.
C29_NodeAt2Cursor ==
    root # SENTINEL =>
        \A position \in ValidPositions(ref) :
            /\ nodeAt2(This, position) # Null
            /\ offsetOfNode(This, nodeAt2(This, position).node)
                   + nodeAt2(This, position).remainder = getOffsetAt(This, position)

\* a position whose cursor lies two or more successors after the piece in which the
\* descent by line number ended: the chase passed a whole piece that was not the first
C29_Witness ==
    /\ root # SENTINEL
    /\ \E position \in ValidPositions(ref) :
           /\ nodeAt2(This, position).node
                  # nodeAt2(This, Position(position.lineNumber, 1)).node
           /\ nodeAt2(This, position).node
                  # next(This, nodeAt2(This, Position(position.lineNumber, 1)).node)
           /\ nodeAt2(This, position).remainder > 0

\* C30: for every valid position getOffsetAt(line, column) is the number of characters of
\* the content before the start of the line, plus column - 1.
C30_OffsetAt ==
    \A position \in ValidPositions(ref) :
        getOffsetAt(This, position) = OffsetOfPosition(ref, position)

\* a line that starts after a line break, in a piece that is not the first, and is asked
\* for at a column beyond its first
C30_Witness ==
    /\ Cardinality(Nodes) >= 3
    /\ \E position \in ValidPositions(ref) :
           /\ position.lineNumber >= 2
           /\ position.column >= 2
           /\ nodeAt2(This, position).node # leftest(This, root)
           /\ nodeAt2(This, position).node # root

\* the test of insert for appending to the located piece: a change-buffer piece that
\* references the tail of the change buffer, located at its right edge
Coalesces(t, cursor) ==
    /\ ~PieceOf(t, cursor.node).isOriginalBuffer
    /\ PieceOf(t, cursor.node).offset + PieceOf(t, cursor.node).length = Len(t.changeBuffer)
    /\ cursor.remainder = PieceOf(t, cursor.node).length

\* after a split at `cursor`: the located node keeps the left half, its successor is the
\* inserted piece, and the successor of that is the right half; the halves together
\* reference the bytes the piece referenced before
SplitAround(before, after, cursor, value) ==
    /\ PieceOf(after, cursor.node).isOriginalBuffer = PieceOf(before, cursor.node).isOriginalBuffer
    /\ PieceOf(after, cursor.node).offset = PieceOf(before, cursor.node).offset
    /\ PieceOf(after, cursor.node).length = cursor.remainder
    /\ next(after, cursor.node) # SENTINEL
    /\ ~PieceOf(after, next(after, cursor.node)).isOriginalBuffer
    /\ PieceOf(after, next(after, cursor.node)).offset = Len(before.changeBuffer)
    /\ PieceOf(after, next(after, cursor.node)).length = Len(value)
    /\ next(after, next(after, cursor.node)) # SENTINEL
    /\ PieceOf(after, next(after, next(after, cursor.node))).isOriginalBuffer
           = PieceOf(before, cursor.node).isOriginalBuffer
    /\ PieceOf(after, next(after, next(after, cursor.node))).offset
           = PieceOf(before, cursor.node).offset + cursor.remainder
    /\ PieceOf(after, next(after, next(after, cursor.node))).length
           = PieceOf(before, cursor.node).length - cursor.remainder

NodeCountChange(before, after) ==
    Cardinality(Reachable(after, after.root)) - Cardinality(Reachable(before, before.root))

InsertChangesNodesAsStated(before, after, value, offset) ==
    IF before.root = SENTINEL
    THEN NodeCountChange(before, after) = 1
    ELSE /\ Coalesces(before, nodeAt(before, offset)) => NodeCountChange(before, after) = 0
         /\ (/\ ~Coalesces(before, nodeAt(before, offset))
             /\ nodeAt(before, offset).remainder
                    \in {0, PieceOf(before, nodeAt(before, offset).node).length})
                => NodeCountChange(before, after) = 1
         /\ (/\ nodeAt(before, offset).remainder > 0
             /\ nodeAt(before, offset).remainder
                    < PieceOf(before, nodeAt(before, offset).node).length)
                => /\ NodeCountChange(before, after) = 2
                   /\ SplitAround(before, after, nodeAt(before, offset), value)

\* C27: an insert of a non-empty value changes the number of nodes by 0 when it coalesces,
\* by 1 at the left or right edge of the located piece without coalescing or into the
\* empty tree, and by 2 strictly inside a piece; after a split the left half, the inserted
\* piece and the right half follow each other in order and the halves reference exactly
\* the bytes of the piece that was split.
C27_InsertNodeCount ==
    last.op = "insert" => InsertChangesNodesAsStated(last.pre, This, last.value, last.offset)

\* an insert strictly inside a piece of a tree that had three or more nodes
C27_Witness ==
    /\ last.op = "insert"
    /\ Cardinality(Reachable(last.pre, last.pre.root)) >= 3
    /\ nodeAt(last.pre, last.offset).remainder > 0
    /\ nodeAt(last.pre, last.offset).remainder
           < PieceOf(last.pre, nodeAt(last.pre, last.offset).node).length

\* an event without its text: its type and its line numbers
ShapeOf(e) ==
    IF e.changeType = "LineChanged"
    THEN <<e.changeType, e.lineNumber>>
    ELSE <<e.changeType, e.fromLineNumber, e.toLineNumber>>

DeletedLineSpan(op) == op.range.endLineNumber - op.range.startLineNumber
InsertedLineSpan(op) == IF op.lines = NullLines THEN 0 ELSE Len(op.lines) - 1

\* the events stated for one executed operation, without their texts
StatedShapes(op) ==
    [k \in 1..(Min(DeletedLineSpan(op), InsertedLineSpan(op)) + 1) |->
        <<"LineChanged", op.range.startLineNumber + k - 1>>]
    \o (IF DeletedLineSpan(op) > InsertedLineSpan(op)
        THEN << <<"LinesDeleted",
                  op.range.startLineNumber + Min(DeletedLineSpan(op), InsertedLineSpan(op)) + 1,
                  op.range.endLineNumber>> >>
        ELSE <<>>)
    \o (IF InsertedLineSpan(op) > DeletedLineSpan(op)
        THEN << <<"LinesInserted",
                  op.range.startLineNumber + Min(DeletedLineSpan(op), InsertedLineSpan(op)) + 1,
                  op.range.startLineNumber + InsertedLineSpan(op)>> >>
        ELSE <<>>)

RECURSIVE StatedShapesFrom(_, _)
StatedShapesFrom(ops, k) ==
    IF k > Len(ops) THEN <<>>
    ELSE (IF isEmpty(ops[k].range) /\ (ops[k].lines = NullLines \/ ops[k].lines = <<>>)
          THEN <<>>
          ELSE StatedShapes(ops[k]))
         \o StatedShapesFrom(ops, k + 1)

\* C21: for each executed operation, with d deleted and i inserted line spans,
\* _doApplyEdits emits min(d, i) + 1 LineChanged events for the lines from the start line
\* on, then a LinesDeleted(start + min + 1, end line) iff d > i, then a
\* LinesInserted(start + min + 1, start + i, text) iff i > d; nothing else is emitted.
C21_EventsPerOperation ==
    (last.op = "applyEdits" /\ ~last.result.threw) =>
        [k \in DOMAIN last.result.rawContentChanges |->
            ShapeOf(last.result.rawContentChanges[k])]
            = StatedShapesFrom(ExecutionOrder, 1)

\* a batch of two executed operations, one that deletes more lines than it inserts and one
\* that inserts more lines than it deletes
C21_Witness ==
    /\ last.op = "applyEdits"
    /\ ~last.result.threw
    /\ Len(last.rawOperations) = 2
    /\ \E k \in DOMAIN last.result.rawContentChanges :
           last.result.rawContentChanges[k].changeType = "LinesDeleted"
    /\ \E k \in DOMAIN last.result.rawContentChanges :
           last.result.rawContentChanges[k].changeType = "LinesInserted"
    /\ \E k \in DOMAIN last.result.rawContentChanges :
           /\ last.result.rawContentChanges[k].changeType = "LineChanged"
           /\ last.result.rawContentChanges[k].lineNumber >= 2

\* rawOperations[i] comes before rawOperations[j] in ascending order of range end; equal
\* ends are ordered by range start first if startBreaksTies, and by input index otherwise
ComesBefore(rawOperations, i, j, startBreaksTies) ==
    \/ isBefore(getEndPosition(rawOperations[i].range), getEndPosition(rawOperations[j].range))
    \/ /\ getEndPosition(rawOperations[i].range) = getEndPosition(rawOperations[j].range)
       /\ \/ /\ startBreaksTies
             /\ isBefore(getStartPosition(rawOperations[i].range),
                         getStartPosition(rawOperations[j].range))
          \/ /\ startBreaksTies =>
                    getStartPosition(rawOperations[i].range)
                        = getStartPosition(rawOperations[j].range)
             /\ i < j

\* the reverse operations are those of the input operations taken in the order pi
ReversesInOrder(pi, startBreaksTies) ==
    /\ \A k \in 1..(Len(last.rawOperations) - 1) :
           ComesBefore(last.rawOperations, pi[k], pi[k + 1], startBreaksTies)
    /\ \A k \in DOMAIN last.rawOperations :
           /\ last.result.reverseOperations[k].identifier
                  = last.rawOperations[pi[k]].identifier
           /\ last.result.reverseOperations[k].forceMoveMarkers
                  = last.rawOperations[pi[k]].forceMoveMarkers
           /\ last.result.reverseOperations[k].range
                  = _getInverseEditRanges([m \in DOMAIN last.rawOperations |->
                                              LastValidated[pi[m]]])[k]
           /\ last.result.reverseOperations[k].text
                  = SubSeq(getLinesContent(last.pre),
                           StartOffset(getLinesContent(last.pre),
                                       last.rawOperations[pi[k]].range) + 1,
                           EndOffset(getLinesContent(last.pre),
                                     last.rawOperations[pi[k]].range))

ReversesAsOrdered(startBreaksTies) ==
    (last.op = "applyEdits" /\ ~last.result.threw) =>
        /\ Len(last.result.reverseOperations) = Len(last.rawOperations)
        /\ \E pi \in Permutations(DOMAIN last.rawOperations) :
               ReversesInOrder(pi, startBreaksTies)

SortedAscending == sortOps(LastValidated, FALSE)

\* the start stated for the inverse range of ops[k], given the inverse ranges r
StatedInverseStart(ops, r, k) ==
    IF k = 1 THEN getStartPosition(ops[k].range)
    ELSE IF ops[k - 1].range.endLineNumber = ops[k].range.startLineNumber
         THEN Position(r[k - 1].endLineNumber,
                       r[k - 1].endColumn
                           + (ops[k].range.startColumn - ops[k - 1].range.endColumn))
         ELSE Position(r[k - 1].endLineNumber
                           + (ops[k].range.startLineNumber - ops[k - 1].range.endLineNumber),
                       ops[k].range.startColumn)

\* the end stated for an inverse range that starts at `start` and inserts `lines`
StatedInverseEnd(start, lines) ==
    IF lines = NullLines \/ Len(lines) = 0 THEN start
    ELSE IF Len(lines) = 1 THEN Position(start.lineNumber, start.column + Len(lines[1]))
    ELSE Position(start.lineNumber + Len(lines) - 1, Len(lines[Len(lines)]) + 1)

InverseRangesAsStated(ops, r) ==
    /\ Len(r) = Len(ops)
    /\ \A k \in 1..Len(ops) :
           /\ getStartPosition(r[k]) = StatedInverseStart(ops, r, k)
           /\ getEndPosition(r[k]) = StatedInverseEnd(StatedInverseStart(ops, r, k), ops[k].lines)

\* C23: on operations sorted ascending the inverse range of an operation starts at its
\* start shifted by what the operation before it did (same line as the previous end: the
\* previous inverse end line and end column plus the column distance; otherwise the
\* previous inverse end line plus the line distance, and the own start column; first
\* operation: unchanged) and ends at the start for no text, on the same line at start
\* column + length for one line, and on line start + k - 1 at column last line length + 1
\* for k > 1 lines.
C23_InverseRanges ==
    last.op = "applyEdits" =>
        InverseRangesAsStated(SortedAscending, _getInverseEditRanges(SortedAscending))

\* a batch of two operations on one line, the first of which inserts two lines and the
\* second one line, so that the second inverse range is shifted in line and column
C23_Witness ==
    /\ last.op = "applyEdits"
    /\ ~last.result.threw
    /\ Len(SortedAscending) = 2
    /\ SortedAscending[1].lines # NullLines
    /\ Len(SortedAscending[1].lines) = 2
    /\ SortedAscending[2].lines # NullLines
    /\ Len(SortedAscending[2].lines) = 1
    /\ SortedAscending[2].range.startLineNumber = SortedAscending[1].range.endLineNumber
    /\ SortedAscending[2].range.startColumn > SortedAscending[1].range.endColumn
    /\ getStartPosition(last.result.reverseOperations[2].range)
           # getStartPosition(SortedAscending[2].range)

\* the guesses whose score exceeds the threshold: 0 if spaces are inserted, a tenth of the
\* number of lines examined otherwise
ExceedingGuesses(spacesDiffCount, insertSpaces, linesCount) ==
    {c \in {2, 4, 6, 8} :
        10 * spacesDiffCount[c] > (IF insertSpaces THEN 0 ELSE linesCount)}

StatedTabSize(spacesDiffCount, insertSpaces, linesCount, defaultTabSize) ==
    IF ExceedingGuesses(spacesDiffCount, insertSpaces, linesCount) = {}
    THEN defaultTabSize
    ELSE CHOOSE c \in ExceedingGuesses(spacesDiffCount, insertSpaces, linesCount) :
             \A d \in ExceedingGuesses(spacesDiffCount, insertSpaces, linesCount) :
                 \/ spacesDiffCount[d] < spacesDiffCount[c]
                 \/ spacesDiffCount[d] = spacesDiffCount[c] /\ c <= d

\* C24: guessIndentation returns as tabSize the guess among 2, 4, 6, 8 with the highest
\* score that strictly exceeds the threshold, the smallest one among equals, and the
\* default tab size if no score exceeds the threshold; the lines "  a", "  b", "    c", ""
\* with defaults (4, true) give insertSpaces true and tabSize 2.
C24_TabSize ==
    last.op = "guessed" =>
        /\ last.result.tabSize
               = StatedTabSize(last.spacesDiffCount, last.result.insertSpaces,
                               last.linesCount, last.defaultTabSize)
        /\ last.target = ExampleTarget =>
               last.result = [insertSpaces |-> TRUE, tabSize |-> 2]

\* tabs are guessed, two guesses have the same score above the threshold and the smaller
\* one is returned
C24_Witness ==
    /\ last.op = "guessed"
    /\ ~last.result.insertSpaces
    /\ last.linesCount > 0
    /\ last.result.tabSize = 2
    /\ last.spacesDiffCount[4] = last.spacesDiffCount[2]

\* the leading whitespace of a line that has other characters; no indentation otherwise
IndentationOf(line) ==
    IF \A j \in 1..Len(line) : line[j] \in {Space, Tab} THEN <<>>
    ELSE SubSeq(line, 1, (CHOOSE j \in 1..Len(line) :
                              /\ line[j] \notin {Space, Tab}
                              /\ \A m \in 1..(j - 1) : line[m] \in {Space, Tab}) - 1)

\* the empty lines that follow target.lines are indented with neither
LinesIndentedWithTabs(target) ==
    Cardinality({n \in 1..Len(target.lines) :
                    \E j \in 1..Len(IndentationOf(target.lines[n])) :
                        IndentationOf(target.lines[n])[j] = Tab})

LinesIndentedWithSpaces(target) ==
    Cardinality({n \in 1..Len(target.lines) :
                    /\ IndentationOf(target.lines[n]) # <<>>
                    /\ \A j \in 1..Len(IndentationOf(target.lines[n])) :
                           IndentationOf(target.lines[n])[j] = Space})

\* C25: guessIndentation returns insertSpaces = (lines indented with spaces > lines
\* indented with tabs) when the two counts differ and the default when they are equal;
\* blank and whitespace-only lines count for neither.
C25_InsertSpaces ==
    last.op = "guessed" =>
        last.result.insertSpaces
            = IF LinesIndentedWithSpaces(last.target) # LinesIndentedWithTabs(last.target)
              THEN LinesIndentedWithSpaces(last.target) > LinesIndentedWithTabs(last.target)
              ELSE last.defaultInsertSpaces

\* the result stated for spacesDiff on the indentations a and b, i being the length of
\* their common prefix
StatedSpacesDiff(a, b, i) ==
    IF \/ spacesFrom(a, i, Len(a)) > 0 /\ tabsFrom(a, i, Len(a)) > 0
       \/ spacesFrom(b, i, Len(b)) > 0 /\ tabsFrom(b, i, Len(b)) > 0
    THEN 0
    ELSE IF tabsFrom(a, i, Len(a)) = tabsFrom(b, i, Len(b))
         THEN Abs(spacesFrom(a, i, Len(a)) - spacesFrom(b, i, Len(b)))
    ELSE IF \E q \in 0..8 :
                q * Abs(tabsFrom(a, i, Len(a)) - tabsFrom(b, i, Len(b)))
                    = Abs(spacesFrom(a, i, Len(a)) - spacesFrom(b, i, Len(b)))
         THEN CHOOSE q \in 0..8 :
                  q * Abs(tabsFrom(a, i, Len(a)) - tabsFrom(b, i, Len(b)))
                      = Abs(spacesFrom(a, i, Len(a)) - spacesFrom(b, i, Len(b)))
    ELSE 0

CommonPrefixLength(a, b) ==
    CHOOSE i \in 0..Len(a) :
        /\ i <= Len(b)
        /\ \A j \in 1..i : a[j] = b[j]
        /\ (i < Len(a) /\ i < Len(b)) => a[i + 1] # b[i + 1]

\* the two indentations the loop of guessIndentation is about to compare
PreviousIndentation == SubSeq(last.previousLineText, 1, last.previousLineIndentation)
CurrentIndentation == IndentationOf(targetLineContent(last.target, last.lineNumber))

\* C26: spacesDiff skips the common prefix of two indentations; it is 0 if what remains
\* of either mixes spaces and tabs; otherwise, with t and s the differences of the tab
\* and space counts, it is s if t = 0, s / t if t divides s, and 0 if not; and it is
\* symmetric in its arguments.
C26_SpacesDiff ==
    (last.op = "guessIndentation" /\ last.lineNumber <= last.linesCount) =>
        /\ spacesDiff(PreviousIndentation, Len(PreviousIndentation),
                      CurrentIndentation, Len(CurrentIndentation))
               = StatedSpacesDiff(PreviousIndentation, CurrentIndentation,
                                  CommonPrefixLength(PreviousIndentation, CurrentIndentation))
        /\ spacesDiff(PreviousIndentation, Len(PreviousIndentation),
                      CurrentIndentation, Len(CurrentIndentation))
               = spacesDiff(CurrentIndentation, Len(CurrentIndentation),
                            PreviousIndentation, Len(PreviousIndentation))

\* the loop has compared two tabs with three spaces, which two does not divide, and is
\* about to compare three spaces with one tab
C26_Witness ==
    /\ last.op = "guessIndentation"
    /\ last.lineNumber = 3
    /\ last.lineNumber <= last.linesCount
    /\ targetLineContent(last.target, 1) = <<Tab, Tab, "a">>
    /\ PreviousIndentation = Spaces(3)
    /\ CurrentIndentation = <<Tab>>
    /\ last.spacesDiffCount[0] = 2

----------------------------------------------------------------------------
(* The inorder sequence of pieces *)

\* the pieces of the subtree of n, from left to right
RECURSIVE PiecesInOrder(_, _)
PiecesInOrder(t, n) ==
    IF n = SENTINEL THEN <<>>
    ELSE PiecesInOrder(t, Left(t, n)) \o <<PieceOf(t, n)>> \o PiecesInOrder(t, Right(t, n))

\* C38: delete(offset, 0) with 0 <= offset <= total length leaves the buffer unchanged:
\* same logical content, same inorder sequence of pieces (no node added, removed or
\* split) and same change buffer.
C38_DeleteNothing ==
    [][(last'.op = "delete" /\ last'.cnt = 0) =>
           /\ getLinesContent(This') = getLinesContent(This)
           /\ PiecesInOrder(This', root') = PiecesInOrder(This, root)
           /\ changeBuffer' = changeBuffer]_vars

\* the bytes [offset, offset + length) of pieces p and q have a byte in common
SharesBytes(p, q) ==
    /\ p.isOriginalBuffer = q.isOriginalBuffer
    /\ Max(p.offset, q.offset) < Min(p.offset + p.length, q.offset + q.length)

\* C37: in every reachable state every piece's byte range [offset, offset + length) lies
\* within the bounds of its buffer (original or change), and no two pieces linked in the
\* tree reference overlapping byte ranges of the same buffer.
C37_PiecesWithinBuffers ==
    /\ \A n \in Nodes :
           /\ node[n].piece.offset >= 0
           /\ node[n].piece.length >= 0
           /\ node[n].piece.offset + node[n].piece.length <= Len(BufferOf(This, n))
    /\ \A n, m \in Nodes : n # m => ~SharesBytes(node[n].piece, node[m].piece)

\* a delete across several nodes has cut the head of its last node: an original-buffer
\* piece and a change-buffer piece are linked, both shorter than the buffer they reference
C37_Witness ==
    /\ last.op = "delete"
    /\ last.pre.root # SENTINEL
    /\ nodeAt(last.pre, last.offset).node # nodeAt(last.pre, last.offset + last.cnt).node
    /\ \E n, m \in Nodes :
           /\ node[n].piece.isOriginalBuffer
           /\ node[n].piece.offset > 0
           /\ ~node[m].piece.isOriginalBuffer
           /\ node[m].piece.length > 0
           /\ node[m].piece.length < Len(changeBuffer)

\* C34: guessIndentation reads its target only through getLineCount() and
\* getLineContent(i); it requests each line number 1 .. min(getLineCount(), 10000)
\* exactly once, in ascending order, and never a line number above
\* min(getLineCount(), 10000). (last.requested is the line number of the latest
\* getLineContent call, 0 before the first one.)
C34_LinesRequested ==
    /\ last.requested = 0
    /\ [][/\ last'.requested <= Min(targetLineCount(last.target), MaxLinesExamined)
          /\ last'.op = "guessIndentation" => last'.requested = last.requested + 1
          /\ last'.op = "guessed" =>
                 /\ last'.requested = last.requested
                 /\ last'.requested = Min(targetLineCount(last.target), MaxLinesExamined)]_vars

\* the guesser has returned for a target of 10001 lines, having requested 10000 of them
C34_Witness ==
    /\ last.op = "guessed"
    /\ targetLineCount(last.target) > MaxLinesExamined
    /\ last.requested = MaxLinesExamined

\* some text of the batch has a right-to-left character / a character outside basic ASCII
SomeTextContainsRTL(rawOperations) ==
    \E i \in DOMAIN rawOperations : containsRTL(rawOperations[i].text)
SomeTextIsNotBasicASCII(rawOperations) ==
    \E i \in DOMAIN rawOperations : ~isBasicASCII(rawOperations[i].text)

\* C33: mightContainRTL and mightContainNonBasicASCII are monotone: across any sequence
\* of _applyEdits calls neither flag goes from true back to false; a flag that is already
\* true is not recomputed (it stays true whatever the texts are, a false one becomes true
\* exactly if some text of the batch has such a character); and the flags are committed
\* only after overlap validation has passed (a rejected batch leaves them as they were).
C33_FlagsMonotone ==
    [][/\ mightContainRTL => mightContainRTL'
       /\ mightContainNonBasicASCII => mightContainNonBasicASCII'
       /\ last'.op = "applyEdits" =>
              IF last'.result.threw
              THEN /\ mightContainRTL' = mightContainRTL
                   /\ mightContainNonBasicASCII' = mightContainNonBasicASCII
              ELSE /\ mightContainRTL'
                       = (mightContainRTL \/ SomeTextContainsRTL(last'.rawOperations))
                   /\ mightContainNonBasicASCII'
                       = (mightContainNonBasicASCII
                              \/ SomeTextIsNotBasicASCII(last'.rawOperations))]_vars

\* a second batch, none of whose texts has a right-to-left character, has run on a
\* buffer whose flags the first batch had set, and the flags are still set
C33_Witness ==
    /\ last.op = "applyEdits"
    /\ last.undoes # Null
    /\ ~last.result.threw
    /\ last.rawOperations # <<>>
    /\ \E i \in DOMAIN last.rawOperations : last.rawOperations[i].text # <<>>
    /\ last.pre.mightContainRTL
    /\ last.pre.mightContainNonBasicASCII
    /\ ~SomeTextContainsRTL(last.rawOperations)
    /\ mightContainRTL
    /\ mightContainNonBasicASCII

\* position a is at or before position b
AtOrBefore(a, b) == ~isBefore(b, a)

\* the inverse ranges returned with the last batch, in the order of SortedAscending
LastInverseRanges ==
    [i \in DOMAIN last.result.reverseOperations |-> last.result.reverseOperations[i].range]

\* C39: for operations that are sorted ascending and pairwise non-overlapping, the ranges
\* returned by _getInverseEditRanges are well-formed (start <= end), in ascending order
\* and pairwise non-overlapping, and reading inverse range i from the post-edit document
\* yields the text inserted by operation i (its lines joined with the buffer's EOL).
C39_InverseRangesCoverTexts ==
    (last.op = "applyEdits" /\ ~last.result.threw) =>
        /\ LastInverseRanges = _getInverseEditRanges(SortedAscending)
        /\ \A i \in DOMAIN LastInverseRanges :
               /\ AtOrBefore(getStartPosition(LastInverseRanges[i]),
                             getEndPosition(LastInverseRanges[i]))
               /\ \A j \in DOMAIN LastInverseRanges :
                      i < j => AtOrBefore(getEndPosition(LastInverseRanges[i]),
                                          getStartPosition(LastInverseRanges[j]))
               /\ LastInverseRanges[i] \in ValidRanges(getLinesContent(This))
               /\ getValueInRangeCall(This, LastInverseRanges[i])
                      = [threw |-> FALSE, t |-> This,
                         value |-> textOfOp(This, SortedAscending[i])]

\* the last batch holds insertions i and j (i before j in the input array) with the
\* same empty range
InsertionsAtOnePlace(i, j) ==
    /\ i < j
    /\ isEmpty(last.rawOperations[i].range)
    /\ last.rawOperations[j].range = last.rawOperations[i].range
    /\ last.rawOperations[i].text # <<>>
    /\ last.rawOperations[j].text # <<>>

\* the text of the k-th operation of the input array as it is inserted
InsertedText(k) == NormalisedEOL(last.rawOperations[k].text, EOL)

\* the range of the reverse operation returned for the k-th operation of the input array
InverseRangeOfInput(k) ==
    (CHOOSE r \in {last.result.reverseOperations[m] :
                      m \in DOMAIN last.result.reverseOperations} :
         r.identifier = last.rawOperations[k].identifier).range

\* the inverse range of input k is a range of the post-edit document and holds `text`
Covers(k, text) ==
    /\ InverseRangeOfInput(k) \in ValidRanges(getLinesContent(This))
    /\ getValueInRange(This, InverseRangeOfInput(k)) = text

\* C36: when a batch contains several insertions with the same (empty) range, their
\* texts appear in the post-edit document in the order of the operations in the input
\* array, and the returned inverse ranges cover the respective texts in that same order.
C36_InsertionsAtOnePlace ==
    (last.op = "applyEdits" /\ ~last.result.threw) =>
        \A i, j \in DOMAIN last.rawOperations :
            InsertionsAtOnePlace(i, j) =>
                /\ \E o \in {StartOffset(getLinesContent(last.pre),
                                         last.rawOperations[i].range)} :
                       getLinesContent(This)
                           = SubSeq(getLinesContent(last.pre), 1, o)
                                 \o InsertedText(i) \o InsertedText(j)
                                 \o SubSeq(getLinesContent(last.pre), o + 1,
                                           Len(getLinesContent(last.pre)))
                /\ Covers(i, InsertedText(i))
                /\ Covers(j, InsertedText(j))
                /\ AtOrBefore(getEndPosition(InverseRangeOfInput(i)),
                              getStartPosition(InverseRangeOfInput(j)))

\* one raw content change replayed on a line array; `ok` is lost when the change names
\* a line the array does not have or carries another number of lines than it announces
ReplayedChange(acc, e) ==
    IF ~acc.ok THEN acc
    ELSE IF e.changeType = "LineChanged"
    THEN IF e.lineNumber \in 1..Len(acc.lines)
         THEN [acc EXCEPT !.lines[e.lineNumber] = e.detail]
         ELSE [acc EXCEPT !.ok = FALSE]
    ELSE IF e.changeType = "LinesDeleted"
    THEN IF e.fromLineNumber >= 1 /\ e.fromLineNumber <= e.toLineNumber
            /\ e.toLineNumber <= Len(acc.lines)
         THEN [acc EXCEPT !.lines = SubSeq(@, 1, e.fromLineNumber - 1)
                                        \o SubSeq(@, e.toLineNumber + 1, Len(@))]
         ELSE [acc EXCEPT !.ok = FALSE]
    ELSE IF e.fromLineNumber \in 1..(Len(acc.lines) + 1)
            /\ Len(LinesOf(e.detail)) = e.toLineNumber - e.fromLineNumber + 1
         THEN [acc EXCEPT !.lines = SubSeq(@, 1, e.fromLineNumber - 1) \o LinesOf(e.detail)
                                        \o SubSeq(@, e.fromLineNumber, Len(@))]
         ELSE [acc EXCEPT !.ok = FALSE]

RECURSIVE Replayed(_, _)
Replayed(acc, changes) ==
    IF changes = <<>> THEN acc
    ELSE Replayed(ReplayedChange(acc, Head(changes)), Tail(changes))

\* C35: replaying the rawContentChanges returned by _applyEdits, in the order returned,
\* on a line-array copy of the pre-edit document (LineChanged replaces a line,
\* LinesDeleted removes lines from..to, LinesInserted inserts its '\n'-joined content as
\* lines from..to) yields exactly the lines of the post-edit document; in particular the
\* content carried by a LinesInserted event is the content of lines from..to right after
\* its operation was applied.
C35_ReplayedChanges ==
    (last.op = "applyEdits" /\ ~last.result.threw) =>
        Replayed([ok |-> TRUE, lines |-> LinesOf(getLinesContent(last.pre))],
                 last.result.rawContentChanges)
            = [ok |-> TRUE, lines |-> LinesOf(getLinesContent(This))]

\* size_left and lf_left of every node linked in t are the sums over its left subtree
MetadataExact(t) ==
    \A n \in Reachable(t, t.root) :
        /\ t.node[n].size_left = TrueSize(t, Left(t, n))
        /\ t.node[n].lf_left = TrueLF(t, Left(t, n))

\* C31: leftRotate and rightRotate preserve the inorder sequence of pieces, and if
\* size_left / lf_left were correct for all nodes before the rotation they are correct
\* for all nodes after it, the metadata of exactly one node being modified: the node
\* that gains the other as its left child (leftRotate) or loses it (rightRotate).
C31_Rotations ==
    last.op \in Rotations =>
        /\ PiecesInOrder(This, root) = PiecesInOrder(last.pre, last.pre.root)
        /\ Nodes = Reachable(last.pre, last.pre.root)
        /\ MetadataExact(last.pre) => MetadataExact(This)
        /\ \A n \in Nodes \ {last.y} :
               /\ node[n].size_left = last.pre.node[n].size_left
               /\ node[n].lf_left = last.pre.node[n].lf_left
        /\ \/ /\ last.op = "leftRotate"
              /\ Left(This, last.y) = last.x
              /\ node[last.y].size_left
                     = last.pre.node[last.y].size_left
                           + TrueSize(last.pre, Left(last.pre, last.x))
                           + PieceOf(last.pre, last.x).length
              /\ node[last.y].lf_left
                     = last.pre.node[last.y].lf_left
                           + TrueLF(last.pre, Left(last.pre, last.x))
                           + PieceOf(last.pre, last.x).lineFeedCnt
           \/ /\ last.op = "rightRotate"
              /\ Right(This, last.x) = last.y
              /\ node[last.y].size_left
                     = last.pre.node[last.y].size_left
                           - TrueSize(last.pre, Left(last.pre, last.x))
                           - PieceOf(last.pre, last.x).length
              /\ node[last.y].lf_left
                     = last.pre.node[last.y].lf_left
                           - TrueLF(last.pre, Left(last.pre, last.x))
                           - PieceOf(last.pre, last.x).lineFeedCnt

\* leftRotate(x) on a tree in which x has a left child and a parent and y a left child,
\* which became the right child of x; x's piece has a line feed, so that both size_left
\* and lf_left of y changed
C31_Witness ==
    /\ last.op = "leftRotate"
    /\ MetadataExact(last.pre)
    /\ Left(last.pre, last.x) # SENTINEL
    /\ Left(last.pre, last.y) # SENTINEL
    /\ Right(This, last.x) = Left(last.pre, last.y)
    /\ Parent(last.pre, last.x) # SENTINEL
    /\ node[last.y].size_left > last.pre.node[last.y].size_left
    /\ node[last.y].lf_left > last.pre.node[last.y].lf_left

\* a loop has ended: the traversal stands at SENTINEL, the upward walk at the root, a
\* fix-up loop has left
LoopEnded ==
    \/ last.op = "exit"
    \/ Looping("next") /\ last.x = SENTINEL
    \/ Looping("parent") /\ last.x = root

\* C32: every loop terminates in every state reachable by insert / delete sequences:
\* every loop that runs comes to its end (the upward walk at the root, the successor
\* traversal at SENTINEL, the loops of fixInsert and of RB-DELETE-FIXUP by leaving); the
\* successor traversal and the upward walk stand at no node twice; and no loop takes
\* more turns than the tree has nodes, in the case of rbDelete counting the unlinked
\* node and SENTINEL as well.
C32_LoopsTerminate ==
    /\ [](last.op = "loop" /\ last.loop \in {"next", "parent"}
              => last.x \notin last.visited)
    /\ [](last.op \in {"loop", "exit"} =>
              last.turns <= Cardinality(Nodes)
                                + (IF last.loop = "rbDeleteFixup" THEN 2 ELSE 0))
    /\ LoopRunning ~> LoopEnded

\* a successor traversal from the first node of a tree with at least four nodes has
\* reached SENTINEL after it stood at every node of the tree
C32_Witness ==
    /\ Looping("next")
    /\ last.x = SENTINEL
    /\ last.visited = Nodes
    /\ Cardinality(Nodes) >= 4

====
